---- MODULE Spec2Model ----
(***************************************************************************)
(* A model of the Flare connectivity layer: the three sub-connections      *)
(* (FTSOConnection, FDCConnection, StateConnectorInterface) and the        *)
(* supervisor FlareNetworkConnector that owns one of each.                 *)
(*                                                                         *)
(* Execution model.  The code is single-threaded JavaScript: an async      *)
(* method runs without interruption up to an await.  Two kinds of await    *)
(* occur in the source:                                                    *)
(*   - a timer, `await new Promise(r => setTimeout(r, ms))`: the method    *)
(*     resumes in a later macrotask, after the clock has advanced, and     *)
(*     then runs (with every continuation that hangs on it) up to the next *)
(*     timer;                                                              *)
(*   - an already-settled promise (`await this.client.getX()`,             *)
(*     `await sub.disconnect()`): the method resumes in a microtask of the *)
(*     macrotask it was called in; only code of the caller can run in      *)
(*     between, no timer can fire.                                         *)
(* The stubbed transport of the source never fails.  `env.faults` says     *)
(* whether the guarded region of a try block (the place of the remote      *)
(* call) may raise, which is what the catch handlers of the source are     *)
(* written for; the specifications without faults are the code as built.   *)
(***************************************************************************)
EXTENDS Integers, Sequences, FiniteSets, TLC

\* ------------------------------------------------------------------ bounds
MaxObjs == 3
MaxTime == 7
MaxTimeConn == 6
MaxTimeLife == 10
MaxTimeFault == 5
MaxTimeData == 4
MaxTimePrice == 4
MaxTimeRegistry == 6
MaxTimeMerge == 4
MaxTimeShare == 4
MaxTimeOverlap == 5
MaxTimeTrip == 5
RandDen == 2
MaxSigs == 4

\* --------------------------------------------------------------- constants
Services == {"ftso", "fdc", "sc"}
Ids == 1..MaxObjs
\* Math.random() is k / RandDen for k in Rand
Rand == 0..(RandDen - 1)

\* ftso-connection.ts:80-105, the ids of mockProviders
MockProviderIds == {"provider-1", "provider-2", "provider-3"}

\* part_001:71-102, the catalog assigned by FDCConnection.connect
\* (averageFinality in milliseconds)
Catalog ==
  << [name |-> "Bitcoin",    chainId |-> "btc-mainnet",  averageFinality |-> 3600000],
     [name |-> "Ethereum",   chainId |-> "eth-mainnet",  averageFinality |-> 180000],
     [name |-> "XRP Ledger", chainId |-> "xrpl-mainnet", averageFinality |-> 5000],
     [name |-> "Algorand",   chainId |-> "algo-mainnet", averageFinality |-> 5000],
     [name |-> "Avalanche",  chainId |-> "avax-c-chain", averageFinality |-> 3000] >>

\* ftso-connection.ts:160, activeDataFeeds of the status
ActiveDataFeeds == <<"BTC", "ETH", "XRP", "ADA", "SOL", "DOT", "FLR", "USDT", "USDC">>

VARIABLES
  now,     \* Date.now()
  env,     \* the environment: [faults, overlap, values]
  conn,    \* conn[s][i]: the i-th connection object of service s
  nobj,    \* nobj[s]: how many objects of service s have been constructed
  sup,     \* the supervisor's fields: config and the three references
  pend,    \* connect() calls suspended at their timer
  ini,     \* the supervisor's initialize() call
  dis,     \* the supervisor's disconnect() call
  upd,     \* the supervisor's updateConfig() call
  op,      \* the data operation in flight, or the last one completed
  last,    \* the last lifecycle call that completed, and how
  ev       \* per object: the last lifecycle call that completed on it

vars == <<now, env, conn, nobj, sup, pend, ini, dis, upd, op, last, ev>>

\* the arguments and the return value of method k are part of the state
Tracked(k) == k \in env.values

\* ------------------------------------------------- a connection object
\* The fields of the three classes (ftso-connection.ts:20-25,
\* part_001:20-25, state-connector.ts:19-23) in one record; `client` is
\* declared without initializer, so it starts undefined.
NewConn(cfg) ==
  [ created             |-> TRUE,
    config              |-> cfg,
    isConnected         |-> FALSE,
    client              |-> "undefined",
    providerRegistry    |-> {},
    supportedBlockchains|-> <<>>,
    lastUpdateTimestamp |-> 0 ]

\* a slot no constructor has run for
NoConn == [NewConn(<<>>) EXCEPT !.created = FALSE]

\* {...a, ...b}
Spread(a, b) ==
  [k \in (DOMAIN a) \cup (DOMAIN b) |-> IF k \in DOMAIN b THEN b[k] ELSE a[k]]

\* {...cfg[key]}: spreading undefined yields no field
Block(cfg, key) == IF key \in DOMAIN cfg THEN cfg[key] ELSE <<>>

\* checkConnection mutated: the guard is dropped
CheckConnection_NoGuard(c) == TRUE

\* checkConnection: TRUE when the call may proceed, FALSE when it throws
\* 'Not connected to ... Call connect() first.'
CheckConnection(c) == c.isConnected /\ c.client = "live"

\* updateProviderRegistry mutated: the timestamp is not recorded
UpdateProviderRegistry_NoStamp(c, t, fails) ==
  IF fails THEN c
  ELSE [c EXCEPT !.providerRegistry = @ \cup MockProviderIds]

\* updateProviderRegistry mutated: the method yields after the first
\* Map.set, so the state other calls run in holds one provider
UpdateProviderRegistry_Yielding(c, t, fails) ==
  IF fails THEN c
  ELSE [c EXCEPT !.providerRegistry = @ \cup {"provider-1"},
                 !.lastUpdateTimestamp = t]

\* FTSOConnection.updateProviderRegistry: Map.set of every mock provider,
\* then the timestamp; a failure in the try block is caught and logged only
UpdateProviderRegistry(c, t, fails) ==
  IF fails THEN c
  ELSE [c EXCEPT !.providerRegistry = @ \cup MockProviderIds,
                 !.lastUpdateTimestamp = t]

\* connect mutated: the connected flag is set, the handle is not stored
ConnectBody_NoClient(s, c, t, regFails) ==
  [c EXCEPT !.isConnected = TRUE, !.lastUpdateTimestamp = t]

\* The part of connect() after its timer, at time t.
ConnectBody(s, c, t, regFails) ==
  CASE s = "ftso" ->
         [UpdateProviderRegistry([c EXCEPT !.client = "live"], t, regFails)
            EXCEPT !.isConnected = TRUE]
    [] s = "fdc" ->
         [c EXCEPT !.client = "live", !.supportedBlockchains = Catalog,
                   !.isConnected = TRUE, !.lastUpdateTimestamp = t]
    [] s = "sc" ->
         [c EXCEPT !.client = "live", !.isConnected = TRUE,
                   !.lastUpdateTimestamp = t]

\* connect mutated: the connected flag is raised before the handshake, and
\* stays raised when the handshake fails
ConnectOutcome_FlagFirst(s, c, t, fails, regFails) ==
  IF fails THEN [c EXCEPT !.isConnected = TRUE]
  ELSE ConnectBody(s, c, t, regFails)

\* connect() from its timer on: the try block raised at the awaited
\* handshake (nothing was assigned yet, the catch block throws
\* '... connection error'), or the rest of the body ran
ConnectOutcome(s, c, t, fails, regFails) ==
  IF fails THEN c ELSE ConnectBody(s, c, t, regFails)

\* disconnect mutated: the flag is cleared, the handle is kept
DisconnectBody_KeepHandle(c, fails) ==
  IF ~c.isConnected \/ fails THEN c ELSE [c EXCEPT !.isConnected = FALSE]

\* disconnect mutated: the early return is taken in every state
DisconnectBody_Noop(c, fails) == c

\* disconnect(): returns at once when not connected; else the try block
\* releases the transport (where a failure leaves the fields as they are
\* and the catch block throws) and then drops the handle
DisconnectBody(c, fails) ==
  IF ~c.isConnected \/ fails THEN c
  ELSE [c EXCEPT !.client = "null", !.isConnected = FALSE]

\* disconnect() throws '... disconnect error'
DisconnectThrows(c, fails) == c.isConnected /\ fails

\* getStatus mutated: the early return for a closed connection is missing
GetStatus_NoEarlyReturn(s, c, r1, r2, probeFails) ==
  [connected |-> c.isConnected, lastUpdate |-> c.lastUpdateTimestamp]

\* getStatus mutated: the catch handler rethrows
GetStatus_Rethrow(s, c, r1, r2, probeFails) ==
  IF ~c.isConnected THEN [connected |-> FALSE]
  ELSE IF probeFails THEN [thrown |-> "status error"]
  ELSE [connected |-> TRUE, lastUpdate |-> c.lastUpdateTimestamp]

\* getStatus() of each class; r1, r2 are the two Math.random() draws, and
\* probeFails says that the try block raised.  A thrown error would be a
\* record with the one field `thrown`.
GetStatus(s, c, r1, r2, probeFails) ==
  IF ~c.isConnected THEN [connected |-> FALSE]
  ELSE IF probeFails THEN [connected |-> TRUE, error |-> "status error"]
  ELSE CASE s = "ftso" ->
              [connected |-> TRUE,
               latency |-> ((r1 * 100) \div RandDen) + 20,
               lastUpdate |-> c.lastUpdateTimestamp,
               providersCount |-> Cardinality(c.providerRegistry),
               activeDataFeeds |-> ActiveDataFeeds]
         [] s = "fdc" ->
              [connected |-> TRUE,
               latency |-> ((r1 * 150) \div RandDen) + 50,
               lastUpdate |-> c.lastUpdateTimestamp,
               supportedChainsCount |-> Len(c.supportedBlockchains),
               activeRequests |-> ((r2 * 50) \div RandDen) + 10]
         [] s = "sc" ->
              [connected |-> TRUE,
               latency |-> ((r1 * 120) \div RandDen) + 30,
               lastUpdate |-> c.lastUpdateTimestamp,
               activeRequests |-> ((r2 * 30) \div RandDen) + 5]


\* ------------------------------------------------------- supervisor config
\* the configuration the supervisor is constructed with (part_000:27-34):
\* endpoint and apiKey are required, the blocks are optional; the price
\* block carries the data-provider credentials (part_000:36-42)
InitConfigs ==
  { [endpoint |-> "e1", apiKey |-> "k1",
     ftsoConfig |-> [dataProviderMode |-> 1, providerIdentity |-> "p",
                     privateKey |-> "pk", votePower |-> 1]] }

\* the configuration carries data-provider credentials in its price block
HasCredentials(cfg) ==
  /\ "ftsoConfig" \in DOMAIN cfg
  /\ {"providerIdentity", "privateKey", "votePower"} \subseteq DOMAIN cfg.ftsoConfig

\* configurations for the calls whose arguments are part of the state:
\* also one without any block, and one with a log level and a data block
MergeConfigs ==
  InitConfigs \cup
  { [endpoint |-> "e1", apiKey |-> "k1"],
    [endpoint |-> "e1", apiKey |-> "k1", logLevel |-> "info",
     fdcConfig |-> [maxConcurrentRequests |-> 1, defaultTimeout |-> 1]] }

\* arguments of updateConfig; when the arguments are part of the state,
\* also a partial that names other blocks and another top-level field
Partials ==
  { <<>>,
    [endpoint |-> "e2", ftsoConfig |-> [votePower |-> 2]] } \cup
  IF Tracked("updateConfig")
  THEN { [logLevel |-> "debug", fdcConfig |-> [defaultTimeout |-> 2],
          stateConnectorConfig |-> [maxQuerySize |-> 1]] }
  ELSE {}

\* updateConfig mutated: a plain spread, the blocks of the partial replace
\* the current blocks
MergeConfig_ReplaceBlocks(cfg, p) == Spread(cfg, p)

\* part_002:211-226, the merge of updateConfig
MergeConfig(cfg, p) ==
  Spread(Spread(cfg, p),
         [ftsoConfig           |-> Spread(Block(cfg, "ftsoConfig"), Block(p, "ftsoConfig")),
          fdcConfig            |-> Spread(Block(cfg, "fdcConfig"), Block(p, "fdcConfig")),
          stateConnectorConfig |-> Spread(Block(cfg, "stateConnectorConfig"),
                                          Block(p, "stateConnectorConfig"))])

\* the name of the block of service s in the supervisor's configuration and
\* in the sub-connection's (part_002:65-69, 88-92, 111-115)
SupBlockKey(s) ==
  CASE s = "ftso" -> "ftsoConfig" [] s = "fdc" -> "fdcConfig"
    [] s = "sc" -> "stateConnectorConfig"

SubBlockKey(s) ==
  CASE s = "ftso" -> "ftsoSpecificConfig" [] s = "fdc" -> "fdcSpecificConfig"
    [] s = "sc" -> "stateConnectorConfig"

\* the constructor argument connectToFTSO / connectToFDC /
\* connectToStateConnector build from the configuration
SubConfig(s, cfg) ==
  LET base == [endpoint |-> cfg.endpoint, apiKey |-> cfg.apiKey]
  IN  IF SupBlockKey(s) \in DOMAIN cfg
      THEN Spread(base, [k \in {SubBlockKey(s)} |-> cfg[SupBlockKey(s)]])
      ELSE base

\* configurations of a price connection constructed by the application
StandaloneFtsoConfigs ==
  { [endpoint |-> "e1", apiKey |-> "k1"],
    [endpoint |-> "e1", apiKey |-> "k1",
     dataProviderSettings |-> [providerIdentity |-> "p", votePower |-> 1]] }

\* ------------------------------------------------------------ event loop
\* initialize mutated: the data connection is connected first
InitOrder_FdcFirst == <<"fdc", "ftso", "sc">>

\* part_002:43-49, the order in which initialize() connects
InitOrder == <<"ftso", "fdc", "sc">>

\* part_002:182-192, the order in which disconnect() visits its references
DisOrder == <<"ftso", "fdc", "sc">>

Idx(seq, s) == CHOOSE k \in 1..3 : seq[k] = s

\* what the guarded region of a try block may do
FaultChoices == IF env.faults THEN BOOLEAN ELSE {FALSE}

\* a continuation is queued as a microtask: no timer fires before it ran
MicroPending == op.pc = "micro" \/ dis.pc # "idle"

\* the timer registered at t0 has expired
Expired(t0) == now > t0 /\ ~MicroPending

\* the clock advances; a data operation waiting at its timer becomes due
Advance ==
  /\ now' = now + 1
  /\ op' = IF op.pc = "timer" THEN [op EXCEPT !.due = TRUE] ELSE op
  /\ UNCHANGED <<env, conn, nobj, sup, pend, ini, dis, upd, last, ev>>

Tick == now < MaxTime /\ Advance

TickConn == now < MaxTimeConn /\ Advance

TickLife == now < MaxTimeLife /\ Advance

TickFault == now < MaxTimeFault /\ Advance

TickData == now < MaxTimeData /\ Advance

TickPrice == now < MaxTimePrice /\ Advance

TickRegistry == now < MaxTimeRegistry /\ Advance

TickMerge == now < MaxTimeMerge /\ Advance

TickShare == now < MaxTimeShare /\ Advance

TickOverlap == now < MaxTimeOverlap /\ Advance

NoLast == [kind |-> "none", result |-> "none"]

IdleOp ==
  [pc |-> "idle", svc |-> "none", obj |-> 0, kind |-> "none", due |-> FALSE,
   outcome |-> "none", arg |-> [none |-> TRUE], res |-> [none |-> TRUE],
   tr |-> [none |-> TRUE]]

\* `cut` says that disconnect() of the supervisor was called while this
\* initialize() was suspended
IdleIni ==
  [pc |-> "idle", by |-> "none", pre |-> [s \in Services |-> 0], cut |-> FALSE]
IdleDis == [pc |-> "idle", by |-> "none", held |-> [s \in Services |-> 0]]
IdleUpd ==
  [pc |-> "idle", t0 |-> 0, pre |-> [s \in Services |-> 0], arg |-> [none |-> TRUE]]

\* ------------------------------------------------------- data operations
\* the public data-returning methods of each class
OpKinds(s) ==
  CASE s = "ftso" -> {"getLatestPrice", "getHistoricalPrices", "submitDataPoint",
                      "getConfidenceInterval", "getProviders"}
    [] s = "fdc"  -> {"requestExternalData", "verifyExternalData", "submitExternalData",
                      "getSupportedBlockchains", "isBlockchainSupported"}
    [] s = "sc"   -> {"getExternalState", "submitStateProof",
                      "queryStateWithAttestation", "verifyAttestation"}

\* where the method suspends after its checks: at a setTimeout, at an
\* awaited call of the client (or of getLatestPrice), or nowhere
OpAwait(k) ==
  CASE k \in {"submitDataPoint", "verifyExternalData", "submitExternalData",
              "submitStateProof", "queryStateWithAttestation"} -> "timer"
    [] k \in {"getLatestPrice", "getConfidenceInterval", "requestExternalData",
              "getExternalState"} -> "micro"
    [] OTHER -> "none"

\* ftso-connection.ts:350, the age in clock ticks past which getProviders
\* refreshes the registry (60 * 60 * 1000 ms in the source)
RegistryTtl == 3

\* getProviders mutated: the registry counts as stale at one hour already
RegistryStale_AtTtl(c, t) == t - c.lastUpdateTimestamp >= RegistryTtl

\* ftso-connection.ts:350, Date.now() - lastUpdateTimestamp > 60 * 60 * 1000
RegistryStale(c, t) == t - c.lastUpdateTimestamp > RegistryTtl

\* ------------------------------------------ arguments and return values
\* `env.values` is the set of methods whose arguments and return values
\* are part of the state; a call of any other method carries NoArg and
\* returns NoRes.  A string array is represented by its length,
\* a path '/a/b/c' by the sequence of its segments << "a", "b", "c" >>, a
\* quotient by the pair of its numerator and denominator.
NoArg == [none |-> TRUE]
NoRes == [none |-> TRUE]

\* blockchain arguments: a chain id of the catalog, a catalog name in
\* another case, and a chain the catalog does not have
Chains == {"btc-mainnet", "ETHEREUM", "dogecoin"}

\* data path arguments
Paths ==
  { <<"eth", "balance">>,
    <<"ftso", "price", "BTC">>,
    <<"a", "price", "BTC", "price", "ETH">>,
    <<"a", "price">> }

\* String.prototype.toLowerCase on the strings that occur
Lower(x) ==
  CASE x = "Bitcoin"    -> "bitcoin"
    [] x = "Ethereum"   -> "ethereum"
    [] x = "ETHEREUM"   -> "ethereum"
    [] x = "ETH-MAINNET" -> "eth-mainnet"
    [] x = "XRP Ledger" -> "xrp ledger"
    [] x = "Algorand"   -> "algorand"
    [] x = "Avalanche"  -> "avalanche"
    [] OTHER            -> x

\* part_001:320, the finality assumed for a chain the catalog does not
\* have (60 * 60 * 1000 ms)
DefaultFinality == 3600000

\* FDCConnection.getBlockchainFinality: Array.find takes the first entry
\* whose chainId is the argument or whose name is it up to case
GetBlockchainFinality(chains, b) ==
  LET hits == {k \in 1..Len(chains) :
                 chains[k].chainId = b \/ Lower(chains[k].name) = Lower(b)}
  IN  IF hits = {} THEN DefaultFinality
      ELSE chains[CHOOSE k \in hits : \A h \in hits : k <= h].averageFinality

\* blockchain arguments of isBlockchainSupported: also a catalog name in
\* lower case, a chain id of the same entry, and that chain id in capitals
ChainQueries == Chains \cup {"ethereum", "eth-mainnet", "ETH-MAINNET"}

\* isBlockchainSupported mutated: the chain id is compared ignoring case
IsBlockchainSupported_CaseBlindId(chains, b) ==
  [value |-> \E k \in 1..Len(chains) :
               Lower(chains[k].chainId) = Lower(b) \/ Lower(chains[k].name) = Lower(b)]

\* part_001:300-302, Array.some over the catalog
IsBlockchainSupported(chains, b) ==
  [value |-> \E k \in 1..Len(chains) :
               chains[k].chainId = b \/ Lower(chains[k].name) = Lower(b)]

\* the rounding mutated: Math.floor(n * 0.67) + 1
Ceil67_FloorPlusOne(n) == ((67 * n) \div 100) + 1

\* Math.ceil(n * 0.67)
Ceil67(n) == (67 * n + 99) \div 100

\* the positions at which '/price/' occurs in the path: a segment "price"
\* that another segment follows
PriceAt(path) == {i \in 1..(Len(path) - 1) : path[i] = "price"}

\* dataPath.includes('/price/')
IncludesPrice(path) == PriceAt(path) # {}

\* dataPath.split('/price/')[1]: what stands between the first '/price/'
\* and the next one that does not overlap it, or the end of the path
SplitPriceSecond(path) ==
  LET i    == CHOOSE k \in PriceAt(path) : \A h \in PriceAt(path) : k <= h
      more == {j \in PriceAt(path) : j >= i + 2}
      j    == IF more = {} THEN Len(path) + 1
              ELSE CHOOSE k \in more : \A h \in more : k <= h
  IN  SubSeq(path, i + 1, j - 1)

\* submitStateProof mutated: the comparison is strict
SubmitStateProof_Strict(a, t) ==
  IF a.signatures > a.requiredAttestations
  THEN [success |-> TRUE, submissionTimestamp |-> t]
  ELSE [success |-> FALSE, submissionTimestamp |-> t,
        error |-> "Insufficient attestation signatures"]

\* state-connector.ts:198-211, the result of submitStateProof built at
\* time t from the proof a
SubmitStateProof(a, t) ==
  LET isValid == a.signatures >= a.requiredAttestations
      r       == [success |-> isValid, submissionTimestamp |-> t]
  IN  IF isValid THEN r
      ELSE Spread(r, [error |-> "Insufficient attestation signatures"])

\* verifyAttestation mutated: the expiry is not looked at
VerifyAttestation_IgnoreExpiry(a, t) == [value |-> a.signatures >= 3]

\* verifyAttestation mutated: an attestation is still valid at validUntil
VerifyAttestation_Inclusive(a, t) ==
  [value |-> a.validUntil >= t /\ a.signatures >= 3]

\* state-connector.ts:287-290, the result of verifyAttestation at time t
VerifyAttestation(a, t) == [value |-> a.validUntil > t /\ a.signatures >= 3]

\* getExternalState mutated: the threshold is rounded down
GetExternalState_Floor(tr, t) ==
  [timestamp |-> t,
   proof     |-> [signatures |-> tr.signatures],
   metadata  |-> [attestationCount     |-> tr.signatures,
                  requiredAttestations |-> (67 * tr.signatures) \div 100,
                  finalized            |-> TRUE]]

\* state-connector.ts:156-177, the proof getExternalState builds at time t
\* from the transport's answer tr
GetExternalState(tr, t) ==
  [timestamp |-> t,
   proof     |-> [signatures |-> tr.signatures],
   metadata  |-> [attestationCount     |-> tr.signatures,
                  requiredAttestations |-> Ceil67(tr.signatures),
                  finalized            |-> TRUE]]

\* verifyExternalData mutated: the valid flag of the record is trusted
VerifyExternalData_TrustFlag(a, c, t) ==
  LET r == [verified   |-> a.valid,
            confidence |-> IF a.valid
                           THEN [num |-> 2 * a.signatures, den |-> 3 * a.threshold]
                           ELSE [num |-> 0, den |-> 1],
            timestamp  |-> t,
            details    |-> [signaturesVerified |-> a.signatures,
                            requiredThreshold  |-> a.threshold,
                            sourceBlockchain   |-> a.blockchain,
                            dataFinality       |->
                              GetBlockchainFinality(c.supportedBlockchains, a.blockchain)]]
  IN  IF a.valid THEN r
      ELSE Spread(r, [error |-> "Insufficient attestation signatures"])

\* part_001:217-239, the result verifyExternalData builds at time t from
\* the record a, on the object c; signatures / (threshold * 1.5) is the
\* quotient 2 * signatures / (3 * threshold)
VerifyExternalData(a, c, t) ==
  LET isValid == a.valid /\ a.signatures >= a.threshold
      r == [verified   |-> isValid,
            confidence |-> IF isValid
                           THEN [num |-> 2 * a.signatures, den |-> 3 * a.threshold]
                           ELSE [num |-> 0, den |-> 1],
            timestamp  |-> t,
            details    |-> [signaturesVerified |-> a.signatures,
                            requiredThreshold  |-> a.threshold,
                            sourceBlockchain   |-> a.blockchain,
                            dataFinality       |->
                              GetBlockchainFinality(c.supportedBlockchains, a.blockchain)]]
  IN  IF isValid THEN r
      ELSE Spread(r, [error |-> "Insufficient attestation signatures"])

\* requestExternalData mutated: the record is always marked valid
RequestExternalData_AlwaysValid(a, tr, t) ==
  [blockchain  |-> a.blockchain,
   dataPath    |-> a.dataPath,
   attestation |-> [signatures |-> tr.signatures, threshold |-> tr.threshold,
                    valid |-> TRUE]]

\* part_001:183-194, the record requestExternalData builds from its
\* arguments a and the transport's answer tr
RequestExternalData(a, tr, t) ==
  [blockchain  |-> a.blockchain,
   dataPath    |-> a.dataPath,
   attestation |-> [signatures |-> tr.signatures, threshold |-> tr.threshold,
                    valid |-> tr.signatures >= tr.threshold]]

\* submitExternalData mutated: the verification result is not looked at
SubmitExternalData_AlwaysOk(a, t) ==
  Spread([success |-> TRUE, submissionTimestamp |-> t],
         IF IncludesPrice(a.dataPath)
         THEN [assetSymbol |-> SplitPriceSecond(a.dataPath)] ELSE <<>>)

\* part_001:261-273, the result submitExternalData builds at time t; an
\* assetSymbol that is undefined is a field that is absent
SubmitExternalData(a, t) ==
  Spread(Spread([success |-> a.verified, submissionTimestamp |-> t],
                IF IncludesPrice(a.dataPath)
                THEN [assetSymbol |-> SplitPriceSecond(a.dataPath)] ELSE <<>>),
         IF a.verified THEN <<>> ELSE [error |-> "Data verification failed"])

\* Prices are whole units, confidence.overall is in hundredths, and the
\* bounds of a band are in 1/10000 of a price unit, so that
\* price * (1 - v * 0.67) is price * (10000 - v * 67) exactly.
\* the prices client.getPriceData may answer: Math.random() * 50000 of the
\* stub (0 when the draw is 0), and one unit
QuotePrices == {(r * 50000) \div RandDen : r \in Rand} \cup {1}

\* the confidence it may answer: 0.95 of the stub, and the ends of [0, 1]
QuoteConfidences == {0, 95, 100}

\* ftso-connection.ts:183-198, the quote getLatestPrice builds from the
\* transport's answer tr
GetLatestPrice(a, tr, t) ==
  [symbol     |-> a.symbol,
   price      |-> tr.price,
   timestamp  |-> t,
   confidence |-> [overall |-> tr.confidence, providers |-> tr.providers],
   sourceInfo |-> [providersCount |-> tr.providers, consensusReached |-> TRUE]]

\* ftso-connection.ts:313-332, one band: m is the multiplier in hundredths
Band(basePrice, varianceFactor, m, level) ==
  [lower |-> basePrice * (10000 - varianceFactor * m),
   upper |-> basePrice * (10000 + varianceFactor * m),
   level |-> level]

\* getConfidenceInterval mutated: the confidence is taken for the variance
GetConfidenceInterval_NoComplement(a, tr, t) ==
  LET priceData      == GetLatestPrice(a, tr, t)
      basePrice      == priceData.price
      varianceFactor == priceData.confidence.overall
  IN  [symbol       |-> a.symbol,
       timestamp    |-> priceData.timestamp,
       currentPrice |-> basePrice,
       intervals    |-> [interval50 |-> Band(basePrice, varianceFactor, 67, 50),
                         interval80 |-> Band(basePrice, varianceFactor, 128, 80),
                         interval95 |-> Band(basePrice, varianceFactor, 196, 95),
                         interval99 |-> Band(basePrice, varianceFactor, 258, 99)]]

\* getConfidenceInterval mutated: the multipliers of the 80% and 95% bands
\* are exchanged
GetConfidenceInterval_SwappedBands(a, tr, t) ==
  LET priceData      == GetLatestPrice(a, tr, t)
      basePrice      == priceData.price
      varianceFactor == 100 - priceData.confidence.overall
  IN  [symbol       |-> a.symbol,
       timestamp    |-> priceData.timestamp,
       currentPrice |-> basePrice,
       intervals    |-> [interval50 |-> Band(basePrice, varianceFactor, 67, 50),
                         interval80 |-> Band(basePrice, varianceFactor, 196, 80),
                         interval95 |-> Band(basePrice, varianceFactor, 128, 95),
                         interval99 |-> Band(basePrice, varianceFactor, 258, 99)]]

\* ftso-connection.ts:301-334, the interval getConfidenceInterval derives
\* from the quote of getLatestPrice
GetConfidenceInterval(a, tr, t) ==
  LET priceData      == GetLatestPrice(a, tr, t)
      basePrice      == priceData.price
      varianceFactor == 100 - priceData.confidence.overall
  IN  [symbol       |-> a.symbol,
       timestamp    |-> priceData.timestamp,
       currentPrice |-> basePrice,
       intervals    |-> [interval50 |-> Band(basePrice, varianceFactor, 67, 50),
                         interval80 |-> Band(basePrice, varianceFactor, 128, 80),
                         interval95 |-> Band(basePrice, varianceFactor, 196, 95),
                         interval99 |-> Band(basePrice, varianceFactor, 258, 99)]]

\* ftso-connection.ts:225, the epoch in milliseconds (3 * 60 * 1000)
EpochInterval == 180000

\* timestamp arguments of getHistoricalPrices, in milliseconds: ranges of
\* up to two epochs, in both orders, that end on an epoch boundary or
\* beside one
HistTimes == {0, 100000, 2 * EpochInterval}

\* ftso-connection.ts:229, how often the loop from `timestamp` to
\* toTimestamp runs
RECURSIVE HistCount(_, _)
HistCount(timestamp, toTimestamp) ==
  IF timestamp <= toTimestamp
  THEN 1 + HistCount(timestamp + EpochInterval, toTimestamp)
  ELSE 0

\* the Math.random() draws of one getHistoricalPrices call: one for the
\* base price and one for the drift of each point
HistDraws(a) ==
  [base : Rand, drift : [1..HistCount(a.fromTimestamp, a.toTimestamp) -> Rand]]

\* A historical price is kept as its exact product: the base price
\* Math.random() * 50000 and the drift factors applied to it so far, each
\* 1 + (Math.random() * 0.02 - 0.01) as a numerator over DriftDen.
DriftDen == 10000 * RandDen

DriftFactor(r) == 9900 * RandDen + 200 * r

\* ftso-connection.ts:229-246, the loop from `timestamp` on: k points have
\* been pushed, basePrice is the running price
RECURSIVE HistLoop(_, _, _, _, _, _)
HistLoop(a, d, timestamp, basePrice, k, dataPoints) ==
  IF timestamp <= a.toTimestamp
  THEN LET price == [basePrice EXCEPT
                       !.factors = Append(@, DriftFactor(d.drift[k + 1]))]
       IN  HistLoop(a, d, timestamp + EpochInterval, price, k + 1,
                    Append(dataPoints,
                           [symbol     |-> a.symbol,
                            price      |-> price,
                            timestamp  |-> timestamp,
                            sourceInfo |-> [epoch |-> timestamp \div EpochInterval]]))
  ELSE dataPoints

\* getHistoricalPrices mutated: the loop starts one epoch after
\* fromTimestamp
GetHistoricalPrices_LateStart(a, d) ==
  [points |-> HistLoop(a, d, a.fromTimestamp + EpochInterval,
                       [base |-> (d.base * 50000) \div RandDen, factors |-> <<>>],
                       0, <<>>)]

\* ftso-connection.ts:225-248, the list getHistoricalPrices returns for
\* the arguments a and the draws d
GetHistoricalPrices(a, d) ==
  [points |-> HistLoop(a, d, a.fromTimestamp,
                       [base |-> (d.base * 50000) \div RandDen, factors |-> <<>>],
                       0, <<>>)]

\* ftso-connection.ts:354, Array.from(this.providerRegistry.values())
GetProviders(c) == [providers |-> c.providerRegistry]

\* state-connector.ts:258, 24 * 60 * 60 * 1000 ms in clock ticks: 24 times
\* the hour of RegistryTtl
AttestationTtl == 24 * RegistryTtl

\* the fields of responseData for the two query types that have a payload
\* (state-connector.ts:239-250)
AccountFields == {"balance", "nonce", "codeHash"}

TransactionFields ==
  {"blockHeight", "blockHash", "transactionHash", "status", "confirmations"}

\* queryStateWithAttestation mutated: the list of signers may be shorter
QueryStateWithAttestation_FewSigners(a, d, t) ==
  [blockchain   |-> a.blockchain,
   address      |-> a.address,
   queryData    |-> a.queryData,
   responseData |-> (IF a.queryType = "ACCOUNT_STATE" THEN AccountFields ELSE {})
                    \cup (IF a.queryType = "TRANSACTION_VERIFICATION"
                          THEN TransactionFields ELSE {}),
   attestation  |-> [signatures |-> (d.r * 5) \div RandDen,
                     timestamp  |-> t,
                     validUntil |-> t + AttestationTtl],
   metadata     |-> [source |-> a.blockchain, attestationSchema |-> a.queryType]]

\* state-connector.ts:233-265, the response queryStateWithAttestation
\* builds at time t for the request a; d.r is the Math.random() draw of the
\* number of signers, responseData is kept as the set of its field names
\* and the signature list as its length
QueryStateWithAttestation(a, d, t) ==
  [blockchain   |-> a.blockchain,
   address      |-> a.address,
   queryData    |-> a.queryData,
   responseData |-> (IF a.queryType = "ACCOUNT_STATE" THEN AccountFields ELSE {})
                    \cup (IF a.queryType = "TRANSACTION_VERIFICATION"
                          THEN TransactionFields ELSE {}),
   attestation  |-> [signatures |-> ((d.r * 5) \div RandDen) + 3,
                     timestamp  |-> t,
                     validUntil |-> t + AttestationTtl],
   metadata     |-> [source |-> a.blockchain, attestationSchema |-> a.queryType]]

\* ftso-connection.ts:277-283, the result submitDataPoint builds at time t
SubmitDataPoint(a, t) ==
  [success |-> TRUE, assetSymbol |-> a.symbol, submissionTimestamp |-> t]

\* part_001:287, [...this.supportedBlockchains]: a new array that holds
\* the entry objects of the connection's array.  `alloc` names those
\* objects by the time connect() created them (part_001:71-103, each
\* connect() assigns a new array literal and then the timestamp), and
\* `mutated` says whether the caller has written to what it was handed.
GetSupportedBlockchains(c) ==
  [chains |-> c.supportedBlockchains, alloc |-> c.lastUpdateTimestamp,
   mutated |-> FALSE]

\* the arguments the application may pass to method k
Args(k) ==
  IF ~Tracked(k) THEN {NoArg}
  ELSE CASE k = "submitStateProof" ->
              {[signatures |-> n, requiredAttestations |-> r] :
                 n \in 0..MaxSigs, r \in 0..MaxSigs}
         [] k = "verifyAttestation" ->
              {[validUntil |-> v, signatures |-> n] :
                 v \in 0..(MaxTimeData + 1), n \in 0..MaxSigs}
         [] k = "verifyExternalData" ->
              {[blockchain |-> b, valid |-> v, signatures |-> n, threshold |-> t] :
                 b \in Chains, v \in BOOLEAN, n \in 0..MaxSigs, t \in 0..MaxSigs}
         [] k = "requestExternalData" ->
              {[blockchain |-> b, dataPath |-> p] : b \in Chains, p \in Paths}
         [] k = "submitExternalData" ->
              {[dataPath |-> p, verified |-> v] : p \in Paths, v \in BOOLEAN}
         [] k = "isBlockchainSupported" ->
              {[blockchain |-> b] : b \in ChainQueries}
         [] k \in {"submitDataPoint", "getLatestPrice", "getConfidenceInterval"} ->
              {[symbol |-> "BTC"]}
         [] k = "queryStateWithAttestation" ->
              {[blockchain |-> b, address |-> "0xabc", queryData |-> "q1",
                queryType |-> q] :
                 b \in {"btc-mainnet", "dogecoin"},
                 q \in {"ACCOUNT_STATE", "TRANSACTION_VERIFICATION", "CONTRACT_CALL"}}
         [] k = "getHistoricalPrices" ->
              {[symbol |-> "BTC", fromTimestamp |-> t0, toTimestamp |-> t1] :
                 t0 \in HistTimes, t1 \in HistTimes}
         [] OTHER -> {NoArg}

\* what the awaited call of the client may answer to method k.  The stub
\* of the source answers 3 signatures (state-connector.ts:69) and 7
\* signatures at threshold 5 (part_001:63-66); a transport may answer any
\* counts.
Transport(k) ==
  IF ~Tracked(k) THEN {NoArg}
  ELSE CASE k = "getExternalState" -> {[signatures |-> n] : n \in 0..MaxSigs}
         [] k = "requestExternalData" ->
              {[signatures |-> 7, threshold |-> 5]} \cup
              {[signatures |-> n, threshold |-> t] : n \in 0..MaxSigs, t \in 0..MaxSigs}
         [] k \in {"getLatestPrice", "getConfidenceInterval"} ->
              {[price |-> p, confidence |-> c, providers |-> 32] :
                 p \in QuotePrices, c \in QuoteConfidences}
         [] OTHER -> {NoArg}

\* what a method draws from Math.random() in the run that builds its
\* result
Draws(k, a) ==
  IF ~Tracked(k) THEN {NoArg}
  ELSE CASE k = "getHistoricalPrices" -> HistDraws(a)
         [] k = "queryStateWithAttestation" -> {[r |-> r] : r \in Rand}
         [] OTHER -> {NoArg}

\* the value method k returns at time t on object c, for arguments a and
\* transport answer (or draws) tr
Result(k, a, tr, c, t) ==
  IF ~Tracked(k) THEN NoRes
  ELSE CASE k = "submitStateProof"    -> SubmitStateProof(a, t)
         [] k = "verifyAttestation"   -> VerifyAttestation(a, t)
         [] k = "getExternalState"    -> GetExternalState(tr, t)
         [] k = "verifyExternalData"  -> VerifyExternalData(a, c, t)
         [] k = "requestExternalData" -> RequestExternalData(a, tr, t)
         [] k = "submitExternalData"  -> SubmitExternalData(a, t)
         [] k = "isBlockchainSupported" ->
              IsBlockchainSupported(c.supportedBlockchains, a.blockchain)
         [] k = "submitDataPoint"     -> SubmitDataPoint(a, t)
         [] k = "getLatestPrice"      -> GetLatestPrice(a, tr, t)
         [] k = "getProviders"        -> GetProviders(c)
         [] k = "getSupportedBlockchains" -> GetSupportedBlockchains(c)
         [] k = "queryStateWithAttestation" -> QueryStateWithAttestation(a, tr, t)
         [] k = "getHistoricalPrices" -> GetHistoricalPrices(a, tr)
         [] k = "getConfidenceInterval" -> GetConfidenceInterval(a, tr, t)
         [] OTHER -> NoRes

\* the kind the frame of a call that returned keeps
DoneKind(k) == IF Tracked(k) THEN k ELSE "returned"

\* the checks mutated: the configuration is looked at before the connection
EntryCheck_ConfigFirst(k, c) ==
  IF k = "submitDataPoint" /\ "dataProviderSettings" \notin DOMAIN c.config
  THEN "ConfigError"
  ELSE IF ~CheckConnection(c) THEN "NotConnected"
  ELSE "ok"

\* what a data method does before its try block: checkConnection(), and
\* in submitDataPoint the test of config.dataProviderSettings
\* (ftso-connection.ts:263-267); the error thrown, or "ok"
EntryCheck(k, c) ==
  IF ~CheckConnection(c) THEN "NotConnected"
  ELSE IF k = "submitDataPoint" /\ "dataProviderSettings" \notin DOMAIN c.config
  THEN "ConfigError"
  ELSE "ok"

\* the application calls method k of object i of service s; the method runs
\* up to its first await.  The frame of a call that returned keeps the
\* object and the outcome.
OpStart(s, i, k) ==
  /\ op.pc \in {"idle", "done"}
  /\ conn[s][i].created
  /\ k \in OpKinds(s)
  /\ LET c == conn[s][i]
         f == [pc |-> "done", svc |-> s, obj |-> i, kind |-> DoneKind(k),
               due |-> FALSE, outcome |-> "ok", arg |-> NoArg, res |-> NoRes,
               tr |-> NoArg]
     IN  IF EntryCheck(k, c) # "ok"
         THEN /\ op' = [f EXCEPT !.outcome = EntryCheck(k, c)]
              /\ conn' = conn
         ELSE IF k = "getProviders" /\ RegistryStale(c, now)
         THEN \E fails \in FaultChoices :
                /\ conn' = [conn EXCEPT ![s][i] = UpdateProviderRegistry(c, now, fails)]
                /\ op' = [f EXCEPT !.pc = "micro", !.kind = k, !.outcome = "none"]
         ELSE \E a \in Args(k) : \E d \in Draws(k, a) :
                /\ conn' = conn
                /\ op' = IF OpAwait(k) = "none"
                         THEN [f EXCEPT !.arg = a, !.res = Result(k, a, d, c, now)]
                         ELSE [f EXCEPT !.pc = OpAwait(k), !.kind = k,
                                        !.outcome = "none", !.arg = a]
  /\ UNCHANGED <<now, env, nobj, sup, pend, ini, dis, upd, last, ev>>

\* the resumption mutated: a call the transport failed marks the
\* connection as no longer connected
OpResumeMicro_ErrorState ==
  /\ op.pc = "micro"
  /\ \E fails \in FaultChoices, tr \in Transport(op.kind) :
       /\ op' = [op EXCEPT !.pc = "done", !.kind = DoneKind(op.kind),
                           !.outcome = IF fails THEN "error" ELSE "ok",
                           !.tr = IF fails THEN NoArg ELSE tr,
                           !.res = IF fails THEN NoRes
                                   ELSE Result(op.kind, op.arg, tr,
                                               conn[op.svc][op.obj], now)]
       /\ conn' = IF fails
                  THEN [conn EXCEPT ![op.svc][op.obj].isConnected = FALSE]
                  ELSE conn
  /\ UNCHANGED <<now, env, nobj, sup, pend, ini, dis, upd, last, ev>>

\* the awaited promise was already settled: the method resumes in a
\* microtask and returns (or the awaited call raised, and the catch block
\* throws 'Failed to ...')
OpResumeMicro ==
  /\ op.pc = "micro"
  /\ \E fails \in FaultChoices, tr \in Transport(op.kind) :
       op' = [op EXCEPT !.pc = "done", !.kind = DoneKind(op.kind),
                        !.outcome = IF fails THEN "error" ELSE "ok",
                        !.tr = IF fails THEN NoArg ELSE tr,
                        !.res = IF fails THEN NoRes
                                ELSE Result(op.kind, op.arg, tr,
                                            conn[op.svc][op.obj], now)]
  /\ UNCHANGED <<now, env, conn, nobj, sup, pend, ini, dis, upd, last, ev>>

\* the timer of the method fires: it builds its result and returns; the
\* connection is not looked at again
OpResumeTimer ==
  /\ op.pc = "timer"
  /\ op.due
  /\ ~MicroPending
  /\ \E fails \in FaultChoices, d \in Draws(op.kind, op.arg) :
       op' = [op EXCEPT !.pc = "done", !.kind = DoneKind(op.kind), !.due = FALSE,
                        !.outcome = IF fails THEN "error" ELSE "ok",
                        !.res = IF fails THEN NoRes
                                ELSE Result(op.kind, op.arg, d,
                                            conn[op.svc][op.obj], now)]
  /\ UNCHANGED <<now, env, conn, nobj, sup, pend, ini, dis, upd, last, ev>>

\* the method whose return value method k takes as its argument
HandedFrom(k) ==
  CASE k = "submitStateProof"  -> "getExternalState"
    [] k = "verifyAttestation" -> "queryStateWithAttestation"

\* the value r that HandedFrom(k) returned, as the argument of k: the
\* fields k reads (state-connector.ts:198 proof.proof.signatures.length
\* and proof.metadata.requiredAttestations, 287-288
\* attestation.attestation.validUntil and .signatures.length), and the
\* timestamp the value was built at, which only a returned value carries
Handed(k, r) ==
  CASE k = "submitStateProof" ->
         [signatures           |-> r.proof.signatures,
          requiredAttestations |-> r.metadata.requiredAttestations,
          timestamp            |-> r.timestamp]
    [] k = "verifyAttestation" ->
         [validUntil |-> r.attestation.validUntil,
          signatures |-> r.attestation.signatures,
          timestamp  |-> r.attestation.timestamp]

\* the application passes the value the last call on an object returned,
\* unmodified, to method k of the same object; the method runs up to its
\* first await
OpStartHanded(k) ==
  /\ k \in {"submitStateProof", "verifyAttestation"}
  /\ op.pc = "done" /\ op.outcome = "ok" /\ op.kind = HandedFrom(k)
  /\ LET c == conn[op.svc][op.obj]
         a == Handed(k, op.res)
         f == [pc |-> "done", svc |-> op.svc, obj |-> op.obj, kind |-> DoneKind(k),
               due |-> FALSE, outcome |-> "ok", arg |-> NoArg, res |-> NoRes,
               tr |-> NoArg]
     IN  op' = IF EntryCheck(k, c) # "ok"
               THEN [f EXCEPT !.outcome = EntryCheck(k, c)]
               ELSE IF OpAwait(k) = "none"
               THEN [f EXCEPT !.arg = a, !.res = Result(k, a, NoArg, c, now)]
               ELSE [f EXCEPT !.pc = OpAwait(k), !.kind = k,
                              !.outcome = "none", !.arg = a]
  /\ UNCHANGED <<now, env, conn, nobj, sup, pend, ini, dis, upd, last, ev>>

\* what a caller may do to the array getSupportedBlockchains() handed to
\* it: remove its last element, or assign to a field of its first entry
Mutations == {"pop", "setChainId", "setFinality"}

\* the effect of mutation m on an array of entries
Mutated(chains, m) ==
  CASE m = "pop"         -> SubSeq(chains, 1, Len(chains) - 1)
    [] m = "setChainId"  -> [chains EXCEPT ![1].chainId = "renamed"]
    [] m = "setFinality" -> [chains EXCEPT ![1].averageFinality = 0]

\* the caller mutates the array it was handed.  The array is the caller's
\* own; its entries are the objects of the connection's array as long as
\* the connection still holds the array they came from, so an assignment
\* to an entry is an assignment to the connection's entry.
CallerMutates(m) ==
  /\ op.pc = "done" /\ op.kind = "getSupportedBlockchains" /\ op.outcome = "ok"
  /\ ~op.res.mutated
  /\ Len(op.res.chains) > 0
  /\ LET c      == conn[op.svc][op.obj]
         shared == c.lastUpdateTimestamp = op.res.alloc
     IN  /\ op' = [op EXCEPT !.res.chains = Mutated(@, m), !.res.mutated = TRUE]
         /\ conn' = IF m # "pop" /\ shared
                    THEN [conn EXCEPT ![op.svc][op.obj].supportedBlockchains =
                                        Mutated(@, m)]
                    ELSE conn
  /\ UNCHANGED <<now, env, nobj, sup, pend, ini, dis, upd, last, ev>>

\* ------------------------------------------- a connection used directly
\* the application calls connect() on object i of service s: the method
\* logs and suspends at its timer
ConnectStart(s, i) ==
  /\ conn[s][i].created
  /\ \A p \in pend : ~(p.svc = s /\ p.obj = i)
  /\ pend' = pend \cup {[svc |-> s, obj |-> i, t0 |-> now, by |-> "app"]}
  /\ UNCHANGED <<now, env, conn, nobj, sup, ini, dis, upd, op, last, ev>>

\* the timer of a connect() called by the application fires
ConnectResume(p) ==
  /\ p \in pend
  /\ p.by = "app"
  /\ Expired(p.t0)
  /\ pend' = pend \ {p}
  /\ \E fails \in FaultChoices, regFails \in FaultChoices :
       /\ conn' = [conn EXCEPT ![p.svc][p.obj] =
                    ConnectOutcome(p.svc, conn[p.svc][p.obj], now, fails, regFails)]
       /\ ev' = IF fails THEN ev ELSE [ev EXCEPT ![p.svc][p.obj] = "connect"]
       /\ last' = [kind |-> "connect", result |-> IF fails THEN "error" ELSE "ok"]
  /\ UNCHANGED <<now, env, nobj, sup, ini, dis, upd, op>>

\* the application calls disconnect() on object i of service s; the method
\* has no await
Disconnect(s, i) ==
  /\ conn[s][i].created
  /\ \E fails \in FaultChoices :
       /\ conn' = [conn EXCEPT ![s][i] = DisconnectBody(conn[s][i], fails)]
       /\ ev' = IF DisconnectThrows(conn[s][i], fails) THEN ev
                ELSE [ev EXCEPT ![s][i] = "disconnect"]
       /\ last' = [kind |-> "disconnect",
                   result |-> IF DisconnectThrows(conn[s][i], fails)
                              THEN "error" ELSE "ok"]
  /\ UNCHANGED <<now, env, nobj, sup, pend, ini, dis, upd, op>>

InitCommon ==
  /\ now = 1
  /\ pend = {}
  /\ ini = IdleIni
  /\ dis = IdleDis
  /\ upd = IdleUpd
  /\ op = IdleOp
  /\ last = NoLast
  /\ ev = [s \in Services |-> [i \in Ids |-> "none"]]

\* one connection, of one of the three classes, constructed by the
\* application (a price connection with or without provider settings)
InitOneConn ==
  /\ InitCommon
  /\ \E s0 \in Services :
       /\ nobj = [s \in Services |-> IF s = s0 THEN 1 ELSE 0]
       /\ \E fc \in StandaloneFtsoConfigs :
            conn = [s \in Services |-> [i \in Ids |->
                      IF s # s0 \/ i > 1 THEN NoConn
                      ELSE IF s = "ftso" THEN NewConn(fc)
                      ELSE NewConn([endpoint |-> "e1", apiKey |-> "k1"])]]
  /\ sup = [config |-> <<>>, ref |-> [s \in Services |-> 0]]

InitConn == InitOneConn /\ env = [faults |-> FALSE, overlap |-> TRUE, values |-> {}]

InitConnFault == InitOneConn /\ env = [faults |-> TRUE, overlap |-> TRUE, values |-> {}]

\* one connection whose data methods are called with arguments and return
\* values
InitData ==
  InitOneConn /\ env = [faults |-> FALSE, overlap |-> TRUE,
                        values |-> OpKinds("fdc") \cup OpKinds("sc")]

NextConn ==
  \/ TickConn
  \/ \E s \in Services, i \in Ids : ConnectStart(s, i)
  \/ \E p \in pend : ConnectResume(p)
  \/ \E s \in Services, i \in Ids : Disconnect(s, i)
  \/ \E s \in Services, i \in Ids : \E k \in OpKinds(s) : OpStart(s, i, k)
  \/ OpResumeMicro
  \/ OpResumeTimer

SpecConn == InitConn /\ [][NextConn]_vars
SpecConnFault == InitConnFault /\ [][NextConn]_vars

\* the same calls over a shorter stretch of time
NextData ==
  \/ TickData
  \/ \E s \in Services, i \in Ids : ConnectStart(s, i)
  \/ \E p \in pend : ConnectResume(p)
  \/ \E s \in Services, i \in Ids : Disconnect(s, i)
  \/ \E s \in Services, i \in Ids : \E k \in OpKinds(s) : OpStart(s, i, k)
  \/ OpResumeMicro
  \/ OpResumeTimer

SpecData == InitData /\ [][NextData]_vars

\* one price connection, with or without provider settings; the methods
\* in vals are called with arguments and return values
InitOnePrice(vals) ==
  /\ InitCommon
  /\ nobj = [s \in Services |-> IF s = "ftso" THEN 1 ELSE 0]
  /\ \E fc \in StandaloneFtsoConfigs :
       conn = [s \in Services |-> [i \in Ids |->
                 IF s = "ftso" /\ i = 1 THEN NewConn(fc) ELSE NoConn]]
  /\ sup = [config |-> <<>>, ref |-> [s \in Services |-> 0]]
  /\ env = [faults |-> FALSE, overlap |-> TRUE, values |-> vals]

InitPrice == InitOnePrice(OpKinds("ftso") \ {"getProviders"})

InitRegistry == InitOnePrice({"getProviders"})

NextPrice ==
  \/ TickPrice
  \/ \E s \in Services, i \in Ids : ConnectStart(s, i)
  \/ \E p \in pend : ConnectResume(p)
  \/ \E s \in Services, i \in Ids : Disconnect(s, i)
  \/ \E s \in Services, i \in Ids : \E k \in OpKinds(s) : OpStart(s, i, k)
  \/ OpResumeMicro
  \/ OpResumeTimer

SpecPrice == InitPrice /\ [][NextPrice]_vars

\* the calls on it, over a stretch of time in which the registry can age
NextRegistry ==
  \/ TickRegistry
  \/ \E s \in Services, i \in Ids : ConnectStart(s, i)
  \/ \E p \in pend : ConnectResume(p)
  \/ \E s \in Services, i \in Ids : Disconnect(s, i)
  \/ \E s \in Services, i \in Ids : \E k \in OpKinds(s) : OpStart(s, i, k)
  \/ OpResumeMicro
  \/ OpResumeTimer

SpecRegistry == InitRegistry /\ [][NextRegistry]_vars


\* one data connection whose catalog is read, with the caller free to
\* write to what it was handed
InitShare ==
  /\ InitCommon
  /\ nobj = [s \in Services |-> IF s = "fdc" THEN 1 ELSE 0]
  /\ conn = [s \in Services |-> [i \in Ids |->
               IF s = "fdc" /\ i = 1
               THEN NewConn([endpoint |-> "e1", apiKey |-> "k1"]) ELSE NoConn]]
  /\ sup = [config |-> <<>>, ref |-> [s \in Services |-> 0]]
  /\ env = [faults |-> FALSE, overlap |-> TRUE,
            values |-> {"getSupportedBlockchains", "isBlockchainSupported"}]

NextShare ==
  \/ TickShare
  \/ \E s \in Services, i \in Ids : ConnectStart(s, i)
  \/ \E p \in pend : ConnectResume(p)
  \/ \E s \in Services, i \in Ids : Disconnect(s, i)
  \/ \E s \in Services, i \in Ids : \E k \in OpKinds(s) : OpStart(s, i, k)
  \/ OpResumeMicro
  \/ OpResumeTimer
  \/ \E m \in Mutations : CallerMutates(m)

SpecShare == InitShare /\ [][NextShare]_vars


\* a stretch of time in which the application does nothing: one tick less
\* than the time an attestation is valid for
LongWait == AttestationTtl - 1

\* the clock ticks in the first MaxTimeTrip ticks and in the MaxTimeTrip
\* ticks that follow a long wait
TickTrip ==
  /\ now < MaxTimeTrip \/ (now > LongWait /\ now < LongWait + MaxTimeTrip)
  /\ Advance

\* nothing is called for a long time
WaitTrip ==
  /\ now <= MaxTimeTrip
  /\ now' = now + LongWait
  /\ op' = IF op.pc = "timer" THEN [op EXCEPT !.due = TRUE] ELSE op
  /\ UNCHANGED <<env, conn, nobj, sup, pend, ini, dis, upd, last, ev>>

\* one state connection whose proofs and attestations are handed back to
\* it, at once or after a long wait
InitTrip ==
  /\ InitCommon
  /\ nobj = [s \in Services |-> IF s = "sc" THEN 1 ELSE 0]
  /\ conn = [s \in Services |-> [i \in Ids |->
               IF s = "sc" /\ i = 1
               THEN NewConn([endpoint |-> "e1", apiKey |-> "k1"]) ELSE NoConn]]
  /\ sup = [config |-> <<>>, ref |-> [s \in Services |-> 0]]
  /\ env = [faults |-> FALSE, overlap |-> TRUE, values |-> OpKinds("sc")]

NextTrip ==
  \/ TickTrip
  \/ WaitTrip
  \/ \E s \in Services, i \in Ids : ConnectStart(s, i)
  \/ \E p \in pend : ConnectResume(p)
  \/ \E s \in Services, i \in Ids : Disconnect(s, i)
  \/ \E i \in Ids : \E k \in {"getExternalState", "queryStateWithAttestation"} :
       OpStart("sc", i, k)
  \/ OpResumeMicro
  \/ OpResumeTimer
  \/ \E k \in {"submitStateProof", "verifyAttestation"} : OpStartHanded(k)

SpecTrip == InitTrip /\ [][NextTrip]_vars

\* ------------------------------------------------------- the supervisor
\* getFTSOConnection / getFDCConnection / getStateConnector
Accessor(s) ==
  IF sup.ref[s] = 0 THEN [thrown |-> TRUE, obj |-> 0]
  ELSE [thrown |-> FALSE, obj |-> sup.ref[s]]

\* getConnectionStatus mutated: an absent reference is reported as an error
GetConnectionStatus_ErrorForAbsent(r1, r2, probeFails) ==
  [s \in Services |->
     IF sup.ref[s] = 0 THEN [connected |-> FALSE, error |-> "not initialized"]
     ELSE GetStatus(s, conn[s][sup.ref[s]], r1, r2, probeFails)]

\* getConnectionStatus(): the three statuses, read one after the other
GetConnectionStatus(r1, r2, probeFails) ==
  [s \in Services |->
     IF sup.ref[s] = 0 THEN [connected |-> FALSE]
     ELSE GetStatus(s, conn[s][sup.ref[s]], r1, r2, probeFails)]

\* no call of the supervisor is in flight
SupIdle == ini.pc = "idle" /\ dis.pc = "idle" /\ upd.pc = "idle"

\* connectToFTSO / connectToFDC / connectToStateConnector up to the timer
\* of connect(): the object is constructed from the current configuration
\* and its connect() is called
Constructed(cn, s) ==
  [cn EXCEPT ![s][nobj[s] + 1] = NewConn(SubConfig(s, sup.config))]

SupPend(s) == [svc |-> s, obj |-> nobj[s] + 1, t0 |-> now, by |-> "sup"]

\* initialize mutated: the references are stored only once all three
\* connections are up, and dropped when a step fails
RefsAfterConnect_DropOnFailure(refs, s, i, fails) ==
  IF fails THEN [x \in Services |-> 0] ELSE [refs EXCEPT ![s] = i]

\* part_002:43-49, `this.xConnection = await this.connectToX()`: the
\* reference is stored as soon as connectToX returned, and not at all when
\* it threw
RefsAfterConnect(refs, s, i, fails) ==
  IF fails THEN refs ELSE [refs EXCEPT ![s] = i]

\* the application calls initialize(); `pre` remembers how many objects
\* existed when the call began
InitializeStart ==
  /\ ini.pc = "idle" /\ upd.pc = "idle"
  /\ env.overlap \/ dis.pc = "idle"
  /\ nobj[InitOrder[1]] < MaxObjs
  /\ LET s == InitOrder[1]
     IN  /\ conn' = Constructed(conn, s)
         /\ nobj' = [nobj EXCEPT ![s] = @ + 1]
         /\ pend' = pend \cup {SupPend(s)}
         /\ ini' = [pc |-> s, by |-> "app", pre |-> nobj, cut |-> FALSE]
  /\ UNCHANGED <<now, env, sup, dis, upd, op, last, ev>>

\* the name under which the caller sees the initialize frame end
CallKind(by) == IF by = "upd" THEN "updateConfig" ELSE "initialize"

\* the timer of the connect() that initialize() waits for fires: connect()
\* returns or throws, connectToX returns the object or throws, and
\* initialize() stores the reference and goes on to the next connectToX, or
\* returns, or throws 'Failed to initialize ...'
InitResume(p) ==
  /\ p \in pend
  /\ p.by = "sup"
  /\ ini.pc = p.svc
  /\ Expired(p.t0)
  /\ \E fails \in FaultChoices, regFails \in FaultChoices :
       LET s    == p.svc
           k    == Idx(InitOrder, s)
           c1   == ConnectOutcome(s, conn[s][p.obj], now, fails, regFails)
           done == fails \/ k = 3
       IN  /\ sup' = [sup EXCEPT !.ref = RefsAfterConnect(sup.ref, s, p.obj, fails)]
           /\ ev' = IF fails THEN ev ELSE [ev EXCEPT ![s][p.obj] = "connect"]
           /\ conn' = IF done THEN [conn EXCEPT ![s][p.obj] = c1]
                      ELSE Constructed([conn EXCEPT ![s][p.obj] = c1], InitOrder[k + 1])
           /\ nobj' = IF done THEN nobj
                      ELSE [nobj EXCEPT ![InitOrder[k + 1]] = @ + 1]
           /\ pend' = IF done THEN pend \ {p}
                      ELSE (pend \ {p}) \cup {SupPend(InitOrder[k + 1])}
           /\ ini' = IF done THEN IdleIni ELSE [ini EXCEPT !.pc = InitOrder[k + 1]]
           /\ upd' = IF done /\ ini.by = "upd" THEN IdleUpd ELSE upd
           /\ last' = IF done
                      THEN [kind |-> CallKind(ini.by),
                            result |-> IF fails THEN "error" ELSE "ok"]
                      ELSE last
  /\ UNCHANGED <<now, env, dis, op>>

\* the first reference at or after position k of disconnect() that is set
NextRef(k) ==
  IF \E j \in k..3 : sup.ref[DisOrder[j]] # 0
  THEN CHOOSE j \in k..3 : /\ sup.ref[DisOrder[j]] # 0
                           /\ \A h \in k..(j - 1) : sup.ref[DisOrder[h]] = 0
  ELSE 0

\* disconnect() of the supervisor from its k-th `if` up to its next await:
\* it disconnects the next reference that is set and suspends, or it clears
\* the three references and returns, or the sub-connection's disconnect()
\* threw and it throws 'Error during disconnect'.  cfg is the configuration
\* and u the updateConfig frame of the caller.
DisRun(k, by, held, cfg, u) ==
  LET j == NextRef(k)
  IN  IF j = 0
      THEN /\ sup' = [config |-> cfg, ref |-> [s \in Services |-> 0]]
           /\ conn' = conn
           /\ ev' = ev
           /\ dis' = IF by = "upd" THEN [pc |-> "ret", by |-> by, held |-> held]
                     ELSE IdleDis
           /\ last' = IF by = "upd" THEN last
                      ELSE [kind |-> "supDisconnect", result |-> "ok"]
           /\ upd' = u
      ELSE \E fails \in FaultChoices :
             LET s == DisOrder[j]
                 i == sup.ref[s]
                 thrown == DisconnectThrows(conn[s][i], fails)
             IN  /\ sup' = [sup EXCEPT !.config = cfg]
                 /\ conn' = [conn EXCEPT ![s][i] = DisconnectBody(conn[s][i], fails)]
                 /\ ev' = IF thrown THEN ev ELSE [ev EXCEPT ![s][i] = "disconnect"]
                 /\ dis' = IF thrown THEN IdleDis
                           ELSE [pc |-> s, by |-> by, held |-> held]
                 /\ last' = IF thrown
                            THEN [kind |-> IF by = "upd" THEN "updateConfig"
                                           ELSE "supDisconnect",
                                  result |-> "error"]
                            ELSE last
                 /\ upd' = IF thrown /\ by = "upd" THEN IdleUpd ELSE u

\* the application calls disconnect() of the supervisor
SupDisconnectStart ==
  /\ dis.pc = "idle" /\ upd.pc = "idle"
  /\ env.overlap \/ ini.pc = "idle"
  /\ DisRun(1, "app", sup.ref, sup.config, upd)
  /\ ini' = IF ini.pc = "idle" THEN ini ELSE [ini EXCEPT !.cut = TRUE]
  /\ UNCHANGED <<now, env, nobj, pend, op>>

\* disconnect() of the supervisor resumes after an awaited disconnect()
DisconnectStep ==
  /\ dis.pc \in Services
  /\ DisRun(Idx(DisOrder, dis.pc) + 1, dis.by, dis.held, sup.config, upd)
  /\ UNCHANGED <<now, env, nobj, pend, ini, op>>

\* the application calls updateConfig(p): the configuration is merged and
\* disconnect() is called
UpdateConfigStart(p) ==
  /\ SupIdle
  /\ nobj[InitOrder[1]] < MaxObjs
  /\ DisRun(1, "upd", sup.ref, MergeConfig(sup.config, p),
            [pc |-> "disc", t0 |-> now, pre |-> nobj,
             arg |-> IF Tracked("updateConfig") THEN p ELSE [none |-> TRUE]])
  /\ UNCHANGED <<now, env, nobj, pend, ini, op>>

\* updateConfig resumes after the awaited disconnect() and calls
\* initialize(), which runs up to the timer of the first connect()
UpdateConfigInit ==
  /\ upd.pc = "disc"
  /\ dis.pc = "ret"
  /\ LET s == InitOrder[1]
     IN  /\ conn' = Constructed(conn, s)
         /\ nobj' = [nobj EXCEPT ![s] = @ + 1]
         /\ pend' = pend \cup {SupPend(s)}
         /\ ini' = [pc |-> s, by |-> "upd", pre |-> nobj, cut |-> FALSE]
  /\ dis' = IdleDis
  /\ upd' = [upd EXCEPT !.pc = "init"]
  /\ UNCHANGED <<now, env, sup, op, last, ev>>

\* the supervisor, constructed and not initialized
InitSup ==
  /\ InitCommon
  /\ nobj = [s \in Services |-> 0]
  /\ conn = [s \in Services |-> [i \in Ids |-> NoConn]]
  /\ \E cfg \in InitConfigs : sup = [config |-> cfg, ref |-> [s \in Services |-> 0]]

Init == InitSup /\ env = [faults |-> FALSE, overlap |-> FALSE, values |-> {}]

InitFault == InitSup /\ env = [faults |-> TRUE, overlap |-> FALSE, values |-> {}]

Next ==
  \/ Tick
  \/ InitializeStart
  \/ \E p \in pend : InitResume(p)
  \/ SupDisconnectStart
  \/ DisconnectStep
  \/ \E p \in Partials : UpdateConfigStart(p)
  \/ UpdateConfigInit
  \/ \E s \in Services, i \in Ids : \E k \in OpKinds(s) : OpStart(s, i, k)
  \/ OpResumeMicro
  \/ OpResumeTimer

\* the lifecycle calls of the supervisor alone
NextLifecycle ==
  \/ TickFault
  \/ InitializeStart
  \/ \E p \in pend : InitResume(p)
  \/ SupDisconnectStart
  \/ DisconnectStep
  \/ \E p \in Partials : UpdateConfigStart(p)
  \/ UpdateConfigInit

\* the lifecycle calls of the supervisor over a longer stretch of time
NextLife ==
  \/ TickLife
  \/ InitializeStart
  \/ \E p \in pend : InitResume(p)
  \/ SupDisconnectStart
  \/ DisconnectStep
  \/ \E p \in Partials : UpdateConfigStart(p)
  \/ UpdateConfigInit

\* the code as built: the stubbed transport never fails
Spec == Init /\ [][Next]_vars

\* the code as built, lifecycle calls only
SpecLife == Init /\ [][NextLife]_vars

\* the lifecycle of the supervisor over a transport that may fail
SpecFault == InitFault /\ [][NextLifecycle]_vars

\* the lifecycle calls of the supervisor issued without awaiting one
\* another: disconnect() while initialize() is suspended, initialize()
\* while disconnect() is suspended
InitOverlap == InitSup /\ env = [faults |-> FALSE, overlap |-> TRUE, values |-> {}]

NextOverlap ==
  \/ TickOverlap
  \/ InitializeStart
  \/ \E p \in pend : InitResume(p)
  \/ SupDisconnectStart
  \/ DisconnectStep
  \/ \E p \in Partials : UpdateConfigStart(p)
  \/ UpdateConfigInit

SpecOverlap == InitOverlap /\ [][NextOverlap]_vars

\* the supervisor constructed with one of several configurations, its
\* lifecycle calls with their arguments
InitMerge ==
  /\ InitCommon
  /\ nobj = [s \in Services |-> 0]
  /\ conn = [s \in Services |-> [i \in Ids |-> NoConn]]
  /\ \E cfg \in MergeConfigs : sup = [config |-> cfg, ref |-> [s \in Services |-> 0]]
  /\ env = [faults |-> FALSE, overlap |-> FALSE, values |-> {"updateConfig"}]

NextMerge ==
  \/ TickMerge
  \/ InitializeStart
  \/ \E p \in pend : InitResume(p)
  \/ SupDisconnectStart
  \/ DisconnectStep
  \/ \E p \in Partials : UpdateConfigStart(p)
  \/ UpdateConfigInit

SpecMerge == InitMerge /\ [][NextMerge]_vars

\* ============================================================ properties

\* C1: a data operation called on a sub-connection fails with the
\* not-connected error exactly when the object is not connected with a live
\* handle, and then nothing else has happened (no field of any object has
\* changed and the call is over); the object passes the check exactly when
\* the last lifecycle call that completed on it without error is a
\* connect(), so never before connect(), after a failed connect() or after
\* disconnect().
C1_NotConnectedGuard ==
  [][ (op.pc \in {"idle", "done"} /\ op' # op) =>
        LET c       == conn[op'.svc][op'.obj]
            refused == op'.outcome = "NotConnected"
        IN  /\ refused <=> ~(c.isConnected /\ c.client = "live")
            /\ refused <=> ev[op'.svc][op'.obj] # "connect"
            /\ refused => (op'.pc = "done" /\ conn' = conn) ]_vars

\* a data operation was refused on a connection that had been connected
\* and then disconnected
C1_Witness ==
  /\ op.pc = "done" /\ op.outcome = "NotConnected"
  /\ ev[op.svc][op.obj] = "disconnect"
  /\ conn[op.svc][op.obj].lastUpdateTimestamp > 0

\* C2: initialize() starts the connect() of the price connection first;
\* the connect() of the data connection is started only in the step in
\* which the price connection's connect() returned successfully, and the
\* connect() of the state connection only in the step in which the data
\* connection's did; no two of them are ever in flight together.
C2_InitializeOrder ==
  [][ /\ \A p \in pend' \ pend :
           \/ /\ p.svc = "ftso"
              /\ ini.pc = "idle"
           \/ /\ p.svc = "fdc"
              /\ \E q \in pend \ pend' :
                   /\ q.svc = "ftso"
                   /\ conn'["ftso"][q.obj].isConnected
                   /\ sup'.ref["ftso"] = q.obj
           \/ /\ p.svc = "sc"
              /\ \E q \in pend \ pend' :
                   /\ q.svc = "fdc"
                   /\ conn'["fdc"][q.obj].isConnected
                   /\ sup'.ref["fdc"] = q.obj
      /\ Cardinality(pend') <= 1 ]_vars

\* initialize() waits for the third connect(), the first two are up
C2_Witness ==
  /\ ini.pc = "sc"
  /\ \E p \in pend : p.svc = "sc"
  /\ \A s \in {"ftso", "fdc"} : sup.ref[s] # 0 /\ conn[s][sup.ref[s]].isConnected

\* C3: when a connect() step of initialize() fails, the initialize() call
\* ends at once with an error and starts no further connect(); every
\* sub-connection created and connected in that call is referenced by the
\* supervisor; and the supervisor disconnect() that follows the failed call
\* leaves the newest object of every service disconnected.
C3_FailedInitializeKeepsTracking ==
  /\ [][ \A p \in pend \ pend' :
           ~conn'[p.svc][p.obj].isConnected =>
             /\ ini'.pc = "idle"
             /\ last' = [kind |-> CallKind(ini.by), result |-> "error"]
             /\ pend' = {}
             /\ \A s \in Services, i \in Ids :
                  (i > ini.pre[s] /\ conn'[s][i].isConnected) => sup'.ref[s] = i ]_vars
  /\ [][ ( /\ last = [kind |-> "initialize", result |-> "error"]
           /\ last' = [kind |-> "supDisconnect", result |-> "ok"] ) =>
             \A s \in Services :
               nobj[s] > 0 => ~conn'[s][nobj[s]].isConnected ]_vars

\* initialize() failed at its third step; the two connections made before
\* are up and referenced
C3_Witness ==
  /\ last = [kind |-> "initialize", result |-> "error"]
  /\ sup.ref["sc"] = 0
  /\ \A s \in {"ftso", "fdc"} : sup.ref[s] # 0 /\ conn[s][sup.ref[s]].isConnected

\* C4: when disconnect() of the supervisor returns, every sub-connection
\* the supervisor held when the call began is disconnected, the three
\* references are cleared, getConnectionStatus() is {connected: false} for
\* all three whatever the draws, and each accessor throws.
C4_SupervisorDisconnect ==
  [][ ( /\ dis'.pc = "idle"
        /\ last' = [kind |-> "supDisconnect", result |-> "ok"]
        /\ \/ dis.pc \in Services /\ dis.by = "app"
           \/ dis.pc = "idle" /\ last' # last ) =>
        LET held == IF dis.pc = "idle" THEN sup.ref ELSE dis.held
        IN  \A s \in Services :
              /\ held[s] # 0 => ~conn'[s][held[s]].isConnected
              /\ sup'.ref[s] = 0
              /\ (Accessor(s).thrown)'
              /\ \A r1 \in Rand, r2 \in Rand, pf \in BOOLEAN :
                   (GetConnectionStatus(r1, r2, pf)[s])' = [connected |-> FALSE] ]_vars

\* disconnect() of the supervisor returned after it disconnected the three
\* connections of a completed initialize()
C4_Witness ==
  /\ last = [kind |-> "supDisconnect", result |-> "ok"]
  /\ dis.pc = "idle"
  /\ \A s \in Services :
       /\ sup.ref[s] = 0
       /\ \E i \in Ids : /\ ev[s][i] = "disconnect"
                         /\ conn[s][i].lastUpdateTimestamp > 0

\* C5: when updateConfig() returns, every sub-connection object that
\* existed when the call began is disconnected, and every connection that
\* is up was created during the call, is the one the supervisor references
\* and was constructed from the merged configuration.
C5_ReconfigureRebuilds ==
  [][ ( /\ upd.pc = "init" /\ upd'.pc = "idle"
        /\ last' = [kind |-> "updateConfig", result |-> "ok"] ) =>
        \A s \in Services, i \in Ids :
          /\ i <= upd.pre[s] => ~conn'[s][i].isConnected
          /\ conn'[s][i].isConnected =>
               /\ i > upd.pre[s]
               /\ sup'.ref[s] = i
               /\ conn'[s][i].config = SubConfig(s, sup.config) ]_vars

\* C6: when updateConfig() ends, it has returned without error, and
\* getConnectionStatus() then reports, for each of the three services and
\* whatever the draws, connected: true and a lastUpdate later than the time
\* at which updateConfig() was called.
C6_StatusAfterUpdateConfig ==
  [][ (upd.pc # "idle" /\ upd'.pc = "idle") =>
        /\ last' = [kind |-> "updateConfig", result |-> "ok"]
        /\ \A s \in Services, r1 \in Rand, r2 \in Rand :
             LET g == (GetConnectionStatus(r1, r2, FALSE)[s])'
             IN  /\ g.connected
                 /\ "lastUpdate" \in DOMAIN g
                 /\ g.lastUpdate > upd.t0 ]_vars

\* updateConfig() returned on a supervisor that was initialized before the
\* call: the three references denote second-generation objects
C6_Witness ==
  /\ last = [kind |-> "updateConfig", result |-> "ok"]
  /\ upd.pc = "idle"
  /\ \A s \in Services : sup.ref[s] >= 2 /\ conn[s][sup.ref[s]].isConnected

\* C7: a data operation that is suspended (at its timer or at an awaited
\* call) and resumes while updateConfig() is in flight, on a sub-connection
\* that updateConfig() has disconnected meanwhile, ends with the
\* not-connected error.
C7_OutstandingCallFails ==
  [][ ( /\ op.pc \in {"timer", "micro"} /\ op'.pc = "done"
        /\ upd.pc # "idle"
        /\ ~conn[op.svc][op.obj].isConnected ) =>
        op'.outcome = "NotConnected" ]_vars

\* C8: for every sub-connection on which the last lifecycle call that
\* completed without error is not a connect() (none yet, a failed connect()
\* only, or a disconnect()), getStatus() is exactly {connected: false},
\* whatever the draws and whether or not the probe would fail.
C8_ClosedStatus ==
  \A s \in Services, i \in Ids, r1 \in Rand, r2 \in Rand, pf \in BOOLEAN :
    (conn[s][i].created /\ ev[s][i] # "connect") =>
      GetStatus(s, conn[s][i], r1, r2, pf) = [connected |-> FALSE]

\* a connection that was connected, has a timestamp and a primed cache, and
\* was disconnected since
C8_Witness ==
  \E s \in Services, i \in Ids :
    /\ ev[s][i] = "disconnect"
    /\ conn[s][i].client = "null"
    /\ conn[s][i].lastUpdateTimestamp > 0

\* C9: getStatus() of every sub-connection returns a status and never
\* throws; on a connection whose last successful lifecycle call is a
\* connect() the status has connected: true, with latency and the recorded
\* lastUpdate when the probe succeeds and exactly {connected: true, error}
\* when it fails; and no entry of getConnectionStatus() is a thrown error.
C9_StatusNeverFails ==
  /\ \A s \in Services : \A i \in 1..nobj[s], r1 \in Rand, r2 \in Rand, pf \in BOOLEAN :
         LET g == GetStatus(s, conn[s][i], r1, r2, pf)
         IN  /\ "thrown" \notin DOMAIN g
             /\ "connected" \in DOMAIN g
             /\ ev[s][i] = "connect" =>
                  /\ g.connected
                  /\ pf => g = [connected |-> TRUE, error |-> "status error"]
                  /\ ~pf => /\ {"latency", "lastUpdate"} \subseteq DOMAIN g
                            /\ g.lastUpdate = conn[s][i].lastUpdateTimestamp
  /\ \A s \in Services, r1 \in Rand, r2 \in Rand, pf \in BOOLEAN :
       LET g == GetConnectionStatus(r1, r2, pf)[s]
       IN  "thrown" \notin DOMAIN g /\ "connected" \in DOMAIN g

\* the supervisor references a connected price connection, whose probe may
\* fail
C9_Witness ==
  /\ sup.ref["ftso"] # 0
  /\ ev["ftso"][sup.ref["ftso"]] = "connect"
  /\ GetConnectionStatus(0, 0, TRUE)["ftso"].connected

\* C10: when connect() returns without error, the object is connected and
\* holds a live handle; the price connection's registry is not empty and
\* the data connection's catalog is the five-chain catalog; and the
\* timestamp the object records was taken during the call (after the call
\* began, at the time it returned) and is the lastUpdate of getStatus().
C10_ConnectEstablishes ==
  [][ \A p \in pend \ pend' :
        last'.result = "ok" =>
          LET c == conn'[p.svc][p.obj]
          IN  /\ c.isConnected /\ c.client = "live"
              /\ p.svc = "ftso" => c.providerRegistry # {}
              /\ p.svc = "fdc" => c.supportedBlockchains = Catalog
              /\ c.lastUpdateTimestamp > p.t0
              /\ c.lastUpdateTimestamp = now'
              /\ \A r1 \in Rand, r2 \in Rand :
                   GetStatus(p.svc, c, r1, r2, FALSE).lastUpdate
                     = c.lastUpdateTimestamp ]_vars

\* connect() of a price connection has just returned
C10_Witness ==
  /\ last = [kind |-> "connect", result |-> "ok"]
  /\ conn["ftso"][1].isConnected
  /\ conn["ftso"][1].providerRegistry = MockProviderIds
  /\ conn["ftso"][1].lastUpdateTimestamp = now

\* C11: when connect() fails at the handshake, the call ends with the
\* connection error and no field of the object has changed; an object that
\* was not connected when the call began is still not connected, holds no
\* live handle (so every data operation is refused) and its getStatus() is
\* {connected: false} whatever the draws.
C11_FailedConnectStaysClosed ==
  [][ \A p \in pend \ pend' :
        last' = [kind |-> "connect", result |-> "error"] =>
          LET c == conn'[p.svc][p.obj]
          IN  /\ c = conn[p.svc][p.obj]
              /\ ev[p.svc][p.obj] # "connect" =>
                   /\ ~c.isConnected
                   /\ c.client # "live"
                   /\ ~CheckConnection(c)
                   /\ \A r1 \in Rand, r2 \in Rand, pf \in BOOLEAN :
                        GetStatus(p.svc, c, r1, r2, pf) = [connected |-> FALSE] ]_vars

\* the first connect() of a connection has failed
C11_Witness ==
  /\ last = [kind |-> "connect", result |-> "error"]
  /\ \E s \in Services :
       /\ conn[s][1].created
       /\ ev[s][1] = "none"
       /\ ~conn[s][1].isConnected
       /\ pend = {}

\* C12: a disconnect() call on a sub-connection that is not connected
\* changes no field of it; on a connected one it replaces the handle by
\* null and clears the connected flag and changes nothing else; hence a
\* second disconnect() leaves the object as the first one left it.
C12_DisconnectIdempotent ==
  [][ (last'.kind = "disconnect" /\ pend' = pend /\ op' = op /\ now' = now) =>
        \A s \in Services, i \in Ids :
          /\ ~conn[s][i].isConnected => conn'[s][i] = conn[s][i]
          /\ (conn[s][i].isConnected /\ conn'[s][i] # conn[s][i]) =>
               /\ conn'[s][i] = [conn[s][i] EXCEPT !.client = "null",
                                                   !.isConnected = FALSE]
               /\ last'.result = "ok"
          /\ (conn[s][i].isConnected /\ last'.result = "ok" /\ ev'[s][i] # ev[s][i]) =>
               /\ ~conn'[s][i].isConnected
               /\ conn'[s][i].client = "null" ]_vars

\* disconnect() has returned on a connection that had been connected
C12_Witness ==
  /\ last = [kind |-> "disconnect", result |-> "ok"]
  /\ \E s \in Services :
       /\ ev[s][1] = "disconnect"
       /\ conn[s][1].client = "null"
       /\ ~conn[s][1].isConnected
       /\ conn[s][1].lastUpdateTimestamp > 0

\* C13: whenever disconnect() of a sub-connection ends, with or without
\* an error, the object it was called on is not connected.
C13_DisconnectAlwaysCloses ==
  [][ (last'.kind = "disconnect" /\ pend' = pend /\ op' = op /\ now' = now) =>
        \A s \in Services, i \in Ids :
          (conn[s][i].created /\ (last'.result = "error" \/ ev'[s][i] = "disconnect")) =>
            ~conn'[s][i].isConnected ]_vars

\* C14: getConnectionStatus() has one entry per service; the entry of a
\* service for which no object was ever constructed, or whose reference is
\* null, is exactly {connected: false}; the entry of a referenced object is
\* what getStatus() of that object returns for the same draws.
C14_ConnectionStatusTriple ==
  \A r1 \in Rand, r2 \in Rand, pf \in BOOLEAN :
    LET g == GetConnectionStatus(r1, r2, pf)
    IN  /\ DOMAIN g = {"ftso", "fdc", "sc"}
        /\ \A s \in Services :
             /\ (nobj[s] = 0 \/ sup.ref[s] = 0) => g[s] = [connected |-> FALSE]
             /\ sup.ref[s] # 0 =>
                  /\ conn[s][sup.ref[s]].created
                  /\ g[s] = GetStatus(s, conn[s][sup.ref[s]], r1, r2, pf)

\* the price connection is referenced and connected, no state connection
\* has been constructed yet
C14_Witness ==
  /\ sup.ref["ftso"] # 0
  /\ conn["ftso"][sup.ref["ftso"]].isConnected
  /\ sup.ref["sc"] = 0
  /\ nobj["sc"] = 0

\* C15: every submitStateProof call that returns on a connection that
\* passed the check has success = true exactly when the proof carries at
\* least requiredAttestations signatures; with fewer, success is false and
\* error is "Insufficient attestation signatures"; with success no error
\* field is set.
C15_SubmitStateProof ==
  (op.pc = "done" /\ op.kind = "submitStateProof" /\ op.outcome = "ok") =>
    /\ op.res.success <=> op.arg.signatures >= op.arg.requiredAttestations
    /\ op.arg.signatures < op.arg.requiredAttestations =>
         /\ ~op.res.success
         /\ "error" \in DOMAIN op.res
         /\ op.res.error = "Insufficient attestation signatures"
    /\ op.res.success => "error" \notin DOMAIN op.res

\* a proof with two signatures where three are required was turned down
C15_Witness ==
  /\ op.pc = "done" /\ op.kind = "submitStateProof" /\ op.outcome = "ok"
  /\ op.arg.signatures = 2 /\ op.arg.requiredAttestations = 3
  /\ ~op.res.success

\* C16: a verifyAttestation call that passes the check returns true exactly
\* when validUntil is later than the time of the call and the response
\* carries at least 3 signatures; it returns false when validUntil is not
\* later than that time, whatever the signature count, and false with fewer
\* than 3 signatures, whatever validUntil.
C16_VerifyAttestation ==
  [][ ( /\ op' # op /\ op'.pc = "done"
        /\ op'.kind = "verifyAttestation" /\ op'.outcome = "ok" ) =>
        /\ op'.res.value <=> (op'.arg.validUntil > now /\ op'.arg.signatures >= 3)
        /\ op'.arg.validUntil <= now => ~op'.res.value
        /\ op'.arg.signatures < 3 => ~op'.res.value ]_vars

\* an attestation with four signatures that expired was turned down
C16_Witness ==
  /\ op.pc = "done" /\ op.kind = "verifyAttestation" /\ op.outcome = "ok"
  /\ op.arg.signatures = 4 /\ op.arg.validUntil = 0
  /\ ~op.res.value

\* C17: every proof getExternalState returns has attestationCount equal to
\* the number of signatures of the proof, requiredAttestations equal to the
\* least integer that is at least 67 hundredths of that number, finalized =
\* true, and attestationCount >= requiredAttestations.
C17_ExternalStateMetadata ==
  (op.pc = "done" /\ op.kind = "getExternalState" /\ op.outcome = "ok") =>
    LET m == op.res.metadata
    IN  /\ m.attestationCount = op.res.proof.signatures
        /\ 100 * m.requiredAttestations >= 67 * m.attestationCount
        /\ 100 * (m.requiredAttestations - 1) < 67 * m.attestationCount
        /\ m.finalized
        /\ m.attestationCount >= m.requiredAttestations

\* a proof with the three signatures of the stub, all three required
C17_Witness ==
  /\ op.pc = "done" /\ op.kind = "getExternalState" /\ op.outcome = "ok"
  /\ op.res.proof.signatures = 3
  /\ op.res.metadata.requiredAttestations = 3

\* C18: every verifyExternalData call that returns has verified = true
\* exactly when the record's valid flag is true and its signatures reach
\* its threshold; confidence is signatures / (threshold * 1.5) when verified
\* and 0 otherwise; the error field is absent exactly when verified; and
\* dataFinality is one hour for Bitcoin's chain id, three minutes for
\* "ETHEREUM" (the catalog name in another case) and one hour for a chain
\* the catalog does not have.
C18_VerifyExternalData ==
  (op.pc = "done" /\ op.kind = "verifyExternalData" /\ op.outcome = "ok") =>
    LET a == op.arg
        r == op.res
    IN  /\ r.verified <=> (a.valid /\ a.signatures >= a.threshold)
        /\ r.verified =>
             /\ r.confidence.num * (3 * a.threshold) = (2 * a.signatures) * r.confidence.den
             /\ a.threshold > 0 => r.confidence.den > 0
        /\ ~r.verified => (r.confidence.num = 0 /\ r.confidence.den > 0)
        /\ r.verified <=> "error" \notin DOMAIN r
        /\ a.blockchain = "btc-mainnet" => r.details.dataFinality = 60 * 60 * 1000
        /\ a.blockchain = "ETHEREUM" => r.details.dataFinality = 3 * 60 * 1000
        /\ a.blockchain = "dogecoin" => r.details.dataFinality = 60 * 60 * 1000

\* a record flagged valid whose signatures are below its threshold, from a
\* chain the catalog does not have, was rejected
C18_Witness ==
  /\ op.pc = "done" /\ op.kind = "verifyExternalData" /\ op.outcome = "ok"
  /\ op.arg.valid /\ op.arg.signatures < op.arg.threshold
  /\ op.arg.blockchain = "dogecoin"
  /\ ~op.res.verified
  /\ "error" \in DOMAIN op.res

\* C19: every record requestExternalData returns has attestation.valid =
\* true exactly when its signature count is at least its threshold, and
\* carries the blockchain and the path the call was given.
C19_RequestExternalData ==
  (op.pc = "done" /\ op.kind = "requestExternalData" /\ op.outcome = "ok") =>
    /\ op.res.attestation.valid <=>
         op.res.attestation.signatures >= op.res.attestation.threshold
    /\ op.res.blockchain = op.arg.blockchain
    /\ op.res.dataPath = op.arg.dataPath

\* a record with the counts the stub answers: 7 signatures at threshold 5
C19_Witness ==
  /\ op.pc = "done" /\ op.kind = "requestExternalData" /\ op.outcome = "ok"
  /\ op.res.attestation.signatures = 7 /\ op.res.attestation.threshold = 5
  /\ op.res.attestation.valid

\* C20 as stated: every submitExternalData call that returns has success =
\* verificationResult.verified, an error exactly when success is false, and
\* an assetSymbol that is everything after the first '/price/' of the path
\* when the path has one, and no assetSymbol otherwise.
C20_SubmitExternalData_AsStated ==
  (op.pc = "done" /\ op.kind = "submitExternalData" /\ op.outcome = "ok") =>
    LET path == op.arg.dataPath
        r    == op.res
        occ  == {i \in 1..(Len(path) - 1) : path[i] = "price"}
    IN  /\ r.success <=> op.arg.verified
        /\ r.success <=> "error" \notin DOMAIN r
        /\ occ = {} <=> "assetSymbol" \notin DOMAIN r
        /\ occ # {} =>
             \E i \in occ :
               /\ \A h \in occ : i <= h
               /\ r.assetSymbol = SubSeq(path, i + 1, Len(path))

\* C20: every submitExternalData call that returns has success =
\* verificationResult.verified, an error exactly when success is false, and
\* an assetSymbol that is what stands between the first '/price/' of the
\* path and the next '/price/' after it (or the end of the path when there
\* is none) when the path has a '/price/', and no assetSymbol otherwise.
C20_SubmitExternalData ==
  (op.pc = "done" /\ op.kind = "submitExternalData" /\ op.outcome = "ok") =>
    LET path == op.arg.dataPath
        r    == op.res
        occ  == {i \in 1..(Len(path) - 1) : path[i] = "price"}
    IN  /\ r.success <=> op.arg.verified
        /\ r.success <=> "error" \notin DOMAIN r
        /\ occ = {} <=> "assetSymbol" \notin DOMAIN r
        /\ occ # {} =>
             \E i \in occ, j \in 1..(Len(path) + 1) :
               /\ \A h \in occ : i <= h
               /\ j >= i + 2
               /\ j \in occ \/ j = Len(path) + 1
               /\ \A h \in occ : h >= i + 2 => j <= h
               /\ r.assetSymbol = SubSeq(path, i + 1, j - 1)

\* a path with two price segments: the symbol is the segment between them
C20_Witness ==
  /\ op.pc = "done" /\ op.kind = "submitExternalData" /\ op.outcome = "ok"
  /\ op.arg.dataPath = <<"a", "price", "BTC", "price", "ETH">>
  /\ op.res.assetSymbol = <<"BTC">>
  /\ ~op.res.success

\* C21: on a connected data connection isBlockchainSupported(id) is true
\* exactly when some catalog entry has the chain id id, or a name that
\* equals id up to letter case; "ethereum" and "eth-mainnet" are supported
\* (the same entry), "dogecoin" is not, and "ETH-MAINNET", which differs
\* from a catalog chain id in case only, is not.
C21_IsBlockchainSupported ==
  (op.pc = "done" /\ op.kind = "isBlockchainSupported" /\ op.outcome = "ok") =>
    LET b == op.arg.blockchain
    IN  /\ op.res.value <=>
              \E k \in 1..Len(Catalog) :
                 Catalog[k].chainId = b \/ Lower(Catalog[k].name) = Lower(b)
        /\ b \in {"ethereum", "eth-mainnet"} => op.res.value
        /\ b \in {"dogecoin", "ETH-MAINNET"} => ~op.res.value

\* the chain id in capitals was asked for and found unsupported
C21_Witness ==
  /\ op.pc = "done" /\ op.kind = "isBlockchainSupported" /\ op.outcome = "ok"
  /\ op.arg.blockchain = "ETH-MAINNET"
  /\ ~op.res.value

\* C22: submitDataPoint called on a price connection that is not connected
\* fails with the not-connected error, with or without provider settings;
\* on a connected one without provider settings it fails with the
\* configuration error, at once and with nothing changed or left in
\* flight; on a connected one with provider settings it goes on to its
\* timer, and when it returns the result has success = true.
C22_SubmitDataPointGate ==
  /\ [][ ( /\ op.pc \in {"idle", "done"} /\ op' # op
           /\ op'.kind = "submitDataPoint" ) =>
         LET c        == conn[op'.svc][op'.obj]
             up       == c.isConnected /\ c.client = "live"
             provider == "dataProviderSettings" \in DOMAIN c.config
         IN  /\ ~up => op'.outcome = "NotConnected"
             /\ (up /\ ~provider) => op'.outcome = "ConfigError"
             /\ (up /\ provider) => (op'.pc = "timer" /\ op'.outcome = "none")
             /\ op'.outcome \in {"NotConnected", "ConfigError"} =>
                  (op'.pc = "done" /\ conn' = conn /\ pend' = pend) ]_vars
  /\ [][ (op.pc = "timer" /\ op.kind = "submitDataPoint" /\ op'.pc = "done") =>
         (op'.outcome = "ok" /\ op'.res.success) ]_vars

\* a submission was refused for want of provider settings
C22_Witness ==
  /\ op.pc = "done" /\ op.kind = "submitDataPoint" /\ op.outcome = "ConfigError"
  /\ conn[op.svc][op.obj].isConnected

\* C23: a call made on the price connection the supervisor references,
\* while that connection is up, is refused with the configuration error
\* only when the supervisor's configuration carries no data-provider
\* credentials in its ftsoConfig block; with the credentials
\* submitDataPoint is let through, without them it is refused.
C23_SupervisorCredentialsGate ==
  [][ ( /\ op.pc \in {"idle", "done"} /\ op' # op
        /\ op'.svc = "ftso" /\ sup.ref["ftso"] = op'.obj
        /\ CheckConnection(conn["ftso"][op'.obj]) ) =>
        /\ HasCredentials(sup.config) => op'.outcome # "ConfigError"
        /\ (~HasCredentials(sup.config) /\ op'.kind = "submitDataPoint") =>
             op'.outcome = "ConfigError" ]_vars

\* the four bands of an interval in the order of their levels
Bands(iv) ==
  << iv.intervals.interval50, iv.intervals.interval80,
     iv.intervals.interval95, iv.intervals.interval99 >>

\* the width of a band, in 1/10000 of a price unit
Width(b) == b.upper - b.lower

\* C24: for a quote with confidence c in [0, 1] and a price that is not
\* negative, the interval getConfidenceInterval returns has, with
\* v = 1 - c, the half-widths 0.67 v price, 1.28 v price, 1.96 v price and
\* 2.58 v price on both sides of the current price for the 50%, 80%, 95%
\* and 99% bands; the widths do not decrease with the level, and the
\* current price lies in every band.
C24_ConfidenceBands ==
  (op.pc = "done" /\ op.kind = "getConfidenceInterval" /\ op.outcome = "ok") =>
    LET p  == op.tr.price
        v  == 100 - op.tr.confidence
        b  == Bands(op.res)
        m  == <<67, 128, 196, 258>>
        lv == <<50, 80, 95, 99>>
    IN  /\ op.res.currentPrice = p
        /\ \A k \in 1..4 :
             /\ b[k].level = lv[k]
             /\ b[k].upper - 10000 * p = m[k] * v * p
             /\ 10000 * p - b[k].lower = m[k] * v * p
             /\ b[k].lower <= 10000 * p /\ 10000 * p <= b[k].upper
        /\ \A k \in 1..3 : Width(b[k]) <= Width(b[k + 1])

\* an interval was derived from a quote of the stub: confidence 0.95 and
\* a price that is not 0
C24_Witness ==
  /\ op.pc = "done" /\ op.kind = "getConfidenceInterval" /\ op.outcome = "ok"
  /\ op.tr.confidence = 95 /\ op.tr.price > 1
  /\ Width(op.res.intervals.interval50) > 0

\* C25 as stated: the width of the bands increases strictly with the
\* level in every interval returned, also for a quote with confidence 1
\* or price 0.
C25_StrictWidths_AsStated ==
  (op.pc = "done" /\ op.kind = "getConfidenceInterval" /\ op.outcome = "ok") =>
    \A k \in 1..3 : Width(Bands(op.res)[k]) < Width(Bands(op.res)[k + 1])

\* C25 amended: the width of the bands increases strictly with the level
\* when the quote has a price above 0 and a confidence below 1; when the
\* price is 0 or the confidence is 1 the four bands have width 0.
C25_StrictWidths ==
  (op.pc = "done" /\ op.kind = "getConfidenceInterval" /\ op.outcome = "ok") =>
    LET b == Bands(op.res)
    IN  IF op.tr.price > 0 /\ op.tr.confidence < 100
        THEN \A k \in 1..3 : Width(b[k]) < Width(b[k + 1])
        ELSE \A k \in 1..4 : Width(b[k]) = 0

\* the stub answered price 0 (Math.random() drew 0) at confidence 0.95,
\* and the bands have collapsed
C25_Witness ==
  /\ op.pc = "done" /\ op.kind = "getConfidenceInterval" /\ op.outcome = "ok"
  /\ op.tr.price = 0 /\ op.tr.confidence = 95
  /\ Width(op.res.intervals.interval99) = 0

\* C26 as stated: for every pair of timestamps t0, t1 the list has
\* floor((t1 - t0) / epoch) + 1 points, epoch being 3 minutes; the first
\* is at t0, each next one exactly one epoch later, none later than t1;
\* the epoch index of a point is floor(timestamp / epoch); and each price
\* is its predecessor times a factor within 1% of 1.
C26_HistoricalPrices_AsStated ==
  (op.pc = "done" /\ op.kind = "getHistoricalPrices" /\ op.outcome = "ok") =>
    LET t0  == op.arg.fromTimestamp
        t1  == op.arg.toTimestamp
        pts == op.res.points
        n   == Len(pts)
    IN  /\ n = ((t1 - t0) \div 180000) + 1
        /\ n > 0 => pts[1].timestamp = t0
        /\ \A k \in 1..n :
             /\ pts[k].timestamp <= t1
             /\ pts[k].sourceInfo.epoch = pts[k].timestamp \div 180000
        /\ \A k \in 1..(n - 1) :
             /\ pts[k + 1].timestamp = pts[k].timestamp + 180000
             /\ pts[k + 1].price.base = pts[k].price.base
             /\ \E f \in (99 * DriftDen) \div 100 .. (101 * DriftDen) \div 100 :
                  pts[k + 1].price.factors = Append(pts[k].price.factors, f)

\* C26 amended: the list has floor((t1 - t0) / epoch) + 1 points when that
\* number is positive and no point otherwise (t1 before t0); the rest as
\* stated.
C26_HistoricalPrices ==
  (op.pc = "done" /\ op.kind = "getHistoricalPrices" /\ op.outcome = "ok") =>
    LET t0  == op.arg.fromTimestamp
        t1  == op.arg.toTimestamp
        pts == op.res.points
        n   == Len(pts)
        cnt == ((t1 - t0) \div 180000) + 1
    IN  /\ n = IF cnt > 0 THEN cnt ELSE 0
        /\ t1 < t0 => n = 0
        /\ n > 0 => pts[1].timestamp = t0
        /\ \A k \in 1..n :
             /\ pts[k].timestamp <= t1
             /\ pts[k].sourceInfo.epoch = pts[k].timestamp \div 180000
        /\ \A k \in 1..(n - 1) :
             /\ pts[k + 1].timestamp = pts[k].timestamp + 180000
             /\ pts[k + 1].price.base = pts[k].price.base
             /\ \E f \in (99 * DriftDen) \div 100 .. (101 * DriftDen) \div 100 :
                  pts[k + 1].price.factors = Append(pts[k].price.factors, f)

\* a range that ends exactly on an epoch boundary was asked for and came
\* back with both ends
C26_Witness ==
  /\ op.pc = "done" /\ op.kind = "getHistoricalPrices" /\ op.outcome = "ok"
  /\ op.arg.fromTimestamp = 0 /\ op.arg.toTimestamp = 360000
  /\ Len(op.res.points) = 3
  /\ op.res.points[3].timestamp = op.arg.toTimestamp

\* C27: getProviders() called on a connected price connection refreshes
\* the registry, which sets the last-update timestamp to the time of the
\* call, exactly when more than one hour has passed since the last update;
\* otherwise it returns at once and changes nothing; in both cases what it
\* returns is the registry the connection holds.  (One hour is 3 ticks of
\* the clock.)
C27_ProvidersRefresh ==
  /\ [][ ( /\ op.pc \in {"idle", "done"} /\ op' # op
           /\ op'.kind = "getProviders" /\ op'.outcome # "NotConnected" ) =>
         LET c  == conn[op'.svc][op'.obj]
             c1 == conn'[op'.svc][op'.obj]
         IN  IF now - c.lastUpdateTimestamp > 3
             THEN /\ c1.lastUpdateTimestamp = now
                  /\ c1.lastUpdateTimestamp > c.lastUpdateTimestamp
                  /\ c1.providerRegistry = MockProviderIds
             ELSE /\ conn' = conn
                  /\ op'.pc = "done" /\ op'.outcome = "ok"
                  /\ op'.res.providers = c.providerRegistry ]_vars
  /\ [][ (op.kind = "getProviders" /\ op.pc = "micro" /\ op'.pc = "done") =>
         /\ op'.outcome = "ok"
         /\ op'.res.providers = conn[op.svc][op.obj].providerRegistry ]_vars

\* getProviders() has refreshed a registry that was more than an hour old
\* and is about to return
C27_Witness ==
  /\ op.pc = "micro" /\ op.kind = "getProviders"
  /\ conn[op.svc][op.obj].lastUpdateTimestamp = now
  /\ now > 3

\* the three sub-config blocks of the supervisor's configuration
BlockKeys == {"ftsoConfig", "fdcConfig", "stateConnectorConfig"}

\* C28: when updateConfig(partial) is called, the configuration the
\* supervisor holds from then on has, outside the three blocks, exactly
\* the fields of the old configuration and of the partial, each with the
\* partial's value when the partial has it and the old value otherwise;
\* and each block has exactly the fields of the old block and of the
\* partial's block, each with the partial's value when the partial's block
\* has it and the old value otherwise.
C28_UpdateConfigMerge ==
  [][ (upd.pc = "idle" /\ upd'.pc = "disc") =>
        LET p   == upd'.arg
            old == sup.config
            new == sup'.config
        IN  /\ (DOMAIN new) \ BlockKeys = ((DOMAIN old) \cup (DOMAIN p)) \ BlockKeys
            /\ \A k \in (DOMAIN new) \ BlockKeys :
                 new[k] = IF k \in DOMAIN p THEN p[k] ELSE old[k]
            /\ \A b \in BlockKeys :
                 LET pb == Block(p, b)
                     ob == Block(old, b)
                     nb == Block(new, b)
                 IN  /\ DOMAIN nb = (DOMAIN ob) \cup (DOMAIN pb)
                     /\ \A f \in DOMAIN nb :
                          nb[f] = IF f \in DOMAIN pb THEN pb[f] ELSE ob[f] ]_vars

\* updateConfig was called with a partial that sets one field of the price
\* block: the field has the new value and the credentials beside it are
\* still there
C28_Witness ==
  /\ upd.pc # "idle"
  /\ "ftsoConfig" \in DOMAIN upd.arg
  /\ upd.arg.ftsoConfig = [votePower |-> 2]
  /\ sup.config.ftsoConfig.votePower = 2
  /\ "privateKey" \in DOMAIN sup.config.ftsoConfig
  /\ sup.config.ftsoConfig.privateKey = "pk"
  /\ sup.config.endpoint = "e2"

\* C29: the response of queryStateWithAttestation carries the blockchain,
\* the address and the query data of the request; its payload has the
\* account fields for ACCOUNT_STATE, the transaction fields for
\* TRANSACTION_VERIFICATION and never fields of both kinds; it is signed
\* by at least 3 signers; and it expires exactly 24 hours after its
\* issuance timestamp, hence later than it.
C29_AttestationResponse ==
  (op.pc = "done" /\ op.kind = "queryStateWithAttestation" /\ op.outcome = "ok") =>
    LET a == op.arg
        r == op.res
    IN  /\ r.blockchain = a.blockchain
        /\ r.address = a.address
        /\ r.queryData = a.queryData
        /\ a.queryType = "ACCOUNT_STATE" =>
             r.responseData = {"balance", "nonce", "codeHash"}
        /\ a.queryType = "TRANSACTION_VERIFICATION" =>
             r.responseData = {"blockHeight", "blockHash", "transactionHash",
                               "status", "confirmations"}
        /\ ~( /\ r.responseData \cap {"balance", "nonce", "codeHash"} # {}
              /\ r.responseData \cap {"blockHeight", "blockHash", "transactionHash",
                                       "status", "confirmations"} # {} )
        /\ r.attestation.signatures >= 3
        /\ r.attestation.validUntil = r.attestation.timestamp + 72
        /\ r.attestation.validUntil > r.attestation.timestamp

\* a transaction query came back, signed and with the transaction payload
C29_Witness ==
  /\ op.pc = "done" /\ op.kind = "queryStateWithAttestation" /\ op.outcome = "ok"
  /\ op.arg.queryType = "TRANSACTION_VERIFICATION"
  /\ "confirmations" \in op.res.responseData
  /\ op.res.attestation.signatures >= 3

\* C30: no failure is swallowed outside the status probes: a connect() of
\* a price connection that returns without error has refreshed the
\* provider registry (the providers are there and the last-update
\* timestamp is the time of the call's return), and a getProviders() that
\* had to refresh the registry and returns without error leaves a registry
\* that is not stale; a refresh that failed makes the call fail.
C30_NoSwallowedFailure ==
  /\ [][ \A p \in pend \ pend' :
           (p.svc = "ftso" /\ last' = [kind |-> "connect", result |-> "ok"]) =>
             /\ conn'["ftso"][p.obj].providerRegistry = MockProviderIds
             /\ conn'["ftso"][p.obj].lastUpdateTimestamp = now ]_vars
  /\ [][ ( /\ op.pc = "micro" /\ op.kind = "getProviders"
           /\ op'.pc = "done" /\ op'.outcome = "ok" ) =>
         ~RegistryStale(conn[op.svc][op.obj], now) ]_vars

\* C31: the states of the model are the points at which another call can
\* run (every await of connect() and of getProviders()).  At each of them
\* the registry of every price connection, which is what a getProviders()
\* called there reads, is a complete provider set: the set before the
\* refresh (empty before the first one) or the full set after it, never a
\* part of it; and every getProviders() that returned handed out such a
\* set.
C31_RegistrySnapshot ==
  /\ \A i \in Ids :
       conn["ftso"][i].created =>
         GetProviders(conn["ftso"][i]).providers \in {{}, MockProviderIds}
  /\ ( op.pc = "done" /\ op.kind = "getProviders" /\ op.outcome = "ok" ) =>
       op.res.providers \in {{}, MockProviderIds}

\* getProviders() returned the full set on a connection whose registry was
\* refreshed by connect(), while another connect() on the same object, which
\* will refresh again, is suspended at its timer
C31_Witness ==
  /\ op.pc = "done" /\ op.kind = "getProviders" /\ op.outcome = "ok"
  /\ op.res.providers = MockProviderIds
  /\ \E p \in pend : p.svc = op.svc /\ p.obj = op.obj

\* C32: when a caller writes to the array getSupportedBlockchains() handed
\* to it, or to an entry of that array, the catalog of every connection is
\* unchanged, and so are the answer of isBlockchainSupported() to every
\* query and the finality verifyExternalData() reports for every chain.
C32_ReturnedValuesAreCopies ==
  [][ ( /\ op.pc = "done" /\ op.kind = "getSupportedBlockchains"
        /\ op.outcome = "ok" /\ ~op.res.mutated
        /\ op'.kind = "getSupportedBlockchains" /\ op'.outcome = "ok"
        /\ op'.res.mutated ) =>
      \A i \in Ids :
        LET chains  == conn["fdc"][i].supportedBlockchains
            chains1 == conn'["fdc"][i].supportedBlockchains
        IN  /\ chains1 = chains
            /\ \A b \in ChainQueries :
                 /\ IsBlockchainSupported(chains1, b) = IsBlockchainSupported(chains, b)
                 /\ GetBlockchainFinality(chains1, b) = GetBlockchainFinality(chains, b)
    ]_vars

\* C33 as stated: every sub-connection object is Disconnected when constructed; it
\* becomes Connected only by the completion of a connect() that was
\* suspended on it (Connecting), and stops being Connected only by a
\* disconnect() that releases the handle (Disconnecting); and a data
\* operation that fails against the transport of a Connected object takes
\* the object out of Connected, into Error, where it no longer passes for
\* Connected.
C33_ConnectionStates_AsStated ==
  /\ [][ \A s \in Services, i \in Ids :
           LET c  == conn[s][i]
               c1 == conn'[s][i]
           IN  /\ (~c.created /\ c1.created) => ~CheckConnection(c1)
               /\ (c.created /\ ~CheckConnection(c) /\ CheckConnection(c1)) =>
                    \E p \in pend \ pend' : p.svc = s /\ p.obj = i
               /\ (CheckConnection(c) /\ ~CheckConnection(c1)) =>
                    /\ ev'[s][i] = "disconnect"
                    /\ ~c1.isConnected /\ c1.client = "null" ]_vars
  /\ [][ ( /\ op.pc \in {"micro", "timer"} /\ op'.pc = "done"
           /\ op'.outcome = "error" ) =>
         ~CheckConnection(conn'[op.svc][op.obj]) ]_vars

\* C33: every sub-connection object is Disconnected when constructed; it
\* becomes Connected only by the completion of a connect() that was
\* suspended on it (Connecting), and stops being Connected only by a
\* disconnect() that releases the handle (Disconnecting); and a data
\* operation that fails against the transport changes no field of any
\* object, so that a Connected object stays Connected: there is no Error
\* state.
C33_ConnectionStates ==
  /\ [][ \A s \in Services, i \in Ids :
           LET c  == conn[s][i]
               c1 == conn'[s][i]
           IN  /\ (~c.created /\ c1.created) => ~CheckConnection(c1)
               /\ (c.created /\ ~CheckConnection(c) /\ CheckConnection(c1)) =>
                    \E p \in pend \ pend' : p.svc = s /\ p.obj = i
               /\ (CheckConnection(c) /\ ~CheckConnection(c1)) =>
                    /\ ev'[s][i] = "disconnect"
                    /\ ~c1.isConnected /\ c1.client = "null" ]_vars
  /\ [][ ( /\ op.pc \in {"micro", "timer"} /\ op'.pc = "done"
           /\ op'.outcome = "error" ) =>
         /\ conn' = conn
         /\ CheckConnection(conn'[op.svc][op.obj]) = CheckConnection(conn[op.svc][op.obj])
       ]_vars

\* a data operation has failed against the transport of an object that
\* connect() had connected, and the object is still Connected
C33_Witness ==
  /\ op.pc = "done" /\ op.outcome = "error"
  /\ ev[op.svc][op.obj] = "connect"
  /\ CheckConnection(conn[op.svc][op.obj])

\* C34: whenever no call of the supervisor is in flight, every
\* sub-connection object that is Connected is the one the supervisor
\* references for its service (so at most one object per service is
\* Connected, and a disconnect() of the supervisor reaches every one).
C34_ConnectedAreReferenced ==
  SupIdle =>
    \A s \in Services, i \in Ids :
      conn[s][i].isConnected => sup.ref[s] = i

\* C35: when an initialize() during whose suspension disconnect() of the
\* supervisor was called completes, with that disconnect() completed too,
\* no sub-connection object is Connected and every service's status reads
\* connected:false (no reference, or a reference to an object that is not
\* connected).
C35_DisconnectDuringInitialize ==
  [][ ( /\ ini.pc # "idle" /\ ini.by = "app" /\ ini.cut
        /\ ini'.pc = "idle" /\ dis'.pc = "idle" ) =>
      /\ \A s \in Services, i \in Ids : ~conn'[s][i].isConnected
      /\ \A s \in Services :
           sup'.ref[s] = 0 \/ ~conn'[s][sup'.ref[s]].isConnected ]_vars

\* C36: a proof that getExternalState returned and that is handed
\* unmodified to submitStateProof of the same object, which passes the
\* connection check, is accepted: the result has success true and no
\* error, whatever number of signatures the transport answered.
C36_ProofRoundTrip ==
  [][ ( /\ op.pc = "timer" /\ op.kind = "submitStateProof"
        /\ "timestamp" \in DOMAIN op.arg
        /\ op'.pc = "done" ) =>
      /\ op'.outcome = "ok"
      /\ op'.res.success
      /\ "error" \notin DOMAIN op'.res ]_vars

\* a proof with no signature at all made the round trip and was accepted
C36_Witness ==
  /\ op.pc = "done" /\ op.kind = "submitStateProof" /\ op.outcome = "ok"
  /\ "timestamp" \in DOMAIN op.arg
  /\ op.arg.signatures = 0
  /\ op.res.success

\* C37: an attestation that queryStateWithAttestation returned and that
\* is handed unmodified to verifyAttestation of the same object, which
\* passes the connection check, verifies as true when less than 24 hours
\* (72 ticks) have passed since its issuance timestamp, and as false from
\* then on.
C37_AttestationRoundTrip ==
  [][ ( /\ op' # op
        /\ op'.pc = "done" /\ op'.kind = "verifyAttestation"
        /\ op'.outcome = "ok"
        /\ "timestamp" \in DOMAIN op'.arg ) =>
      ( op'.res.value <=> now < op'.arg.timestamp + 72 ) ]_vars

\* an attestation was verified exactly 24 hours after its issuance and
\* found expired
C37_Witness ==
  /\ op.pc = "done" /\ op.kind = "verifyAttestation" /\ op.outcome = "ok"
  /\ "timestamp" \in DOMAIN op.arg
  /\ now = op.arg.timestamp + 72
  /\ ~op.res.value

====
